---- MODULE Spec2Model ----
(***************************************************************************)
(* A model of the dbfmigration scripts: the sales-order history migrator,  *)
(* the missing-parts importer, the item-number fixer, the parts updater    *)
(* and the initial loader, run against one shared document store.          *)
(*                                                                         *)
(* Encoding.  A JSON scalar is a record: [t |-> "null"], [t |-> "str",     *)
(* s |-> <<tokens>>] or [t |-> "num", n |-> thousandths].  A Python string *)
(* is the sequence of its tokens (characters; a date's digit groups are    *)
(* one token each).  A number x is the integer 1000 * x.  A collection is  *)
(* the sequence of its documents in natural (insertion) order and a        *)
(* document's _id is its position in that sequence; the orders collection  *)
(* is only ever inserted into, so it is kept as the number of documents    *)
(* per order_number.                                                       *)
(***************************************************************************)
EXTENDS Integers, Sequences, FiniteSets, TLC

VARIABLES
    prog,          \* which script this behaviour runs
    sales_data,    \* the sales lines file (SalesOrderHistoryMigrator --sales-file)
    customers,     \* db.customers
    parts,         \* db.parts
    orders,        \* db.orders: order_number -> number of documents
    orders_index,  \* whether db.orders carries the unique index on order_number
    mig,           \* per process: the state of its run of migrate_sales_orders
    warnings,      \* the warnings file (SalesOrderMissingPartsImporter --warnings-file)
    parts_file,    \* the legacy parts file (--parts-file)
    imp,           \* per process: the state of its run of the missing-parts importer
    suppliers,     \* db.suppliers
    contacts,      \* db.contacts
    files,         \* the four files of the initial loader (Convert.py), and which of the
                   \* input files of the running script, if any, is not valid JSON
    conv,          \* the state of the run of the initial loader
    old_file,      \* the legacy parts file of the item-number fixer (--old-file)
    new_file,      \* the new parts file of the item-number fixer (--new-file)
    fix,           \* the state of the run of update_item_numbers
    notes_file,    \* the part notes file of the parts updater (--parts-notes-file)
    parts_index,   \* whether db.parts carries the index on item_number
    upd,           \* the state of the run of update_parts
    link,          \* the state of the run of the contact company updater
    prev           \* per process: what its previous run of the script reported

vars == <<prog, sales_data, customers, parts, orders, orders_index, mig,
          warnings, parts_file, imp, suppliers, contacts, files, conv,
          old_file, new_file, fix, notes_file, parts_index, upd, link, prev>>

\* what each script reads and keeps, for the steps of the other scripts
migVars == <<sales_data, mig>>

impVars == <<warnings, parts_file, imp>>

convVars == <<suppliers, contacts, files, conv>>

fixVars == <<old_file, new_file, fix>>

updVars == <<notes_file, parts_index, upd>>

\* ------------------------------------------------------------------ bounds

MaxLines == 3
MaxBatch == 2
MaxFile == 2
MaxRuns == 2

Procs == {1, 2}

\* ------------------------------------------------------------- JSON values

JNull == [t |-> "null"]

JStr(s) == [t |-> "str", s |-> s]

JNum(n) == [t |-> "num", n |-> n]

Digits == {"0", "1", "2", "3", "4", "5", "6", "7", "8", "9"}

DigitVal(c) == CASE c = "0" -> 0 [] c = "1" -> 1 [] c = "2" -> 2 [] c = "3" -> 3
                 [] c = "4" -> 4 [] c = "5" -> 5 [] c = "6" -> 6 [] c = "7" -> 7
                 [] c = "8" -> 8 [] c = "9" -> 9

DigitChar(d) == CHOOSE c \in Digits : DigitVal(c) = d

\* the characters str.strip() removes
Whitespace == {" ", "\n", "\t"}

RECURSIVE LStrip(_)
LStrip(s) == IF s # <<>> /\ Head(s) \in Whitespace THEN LStrip(Tail(s)) ELSE s

RECURSIVE RStrip(_)
RStrip(s) == IF s # <<>> /\ s[Len(s)] \in Whitespace THEN RStrip(SubSeq(s, 1, Len(s) - 1)) ELSE s

\* str.strip()
Strip(s) == RStrip(LStrip(s))

\* the decimal digits of a natural number
RECURSIVE NatStr(_)
NatStr(n) == IF n < 10 THEN <<DigitChar(n)>> ELSE NatStr(n \div 10) \o <<DigitChar(n % 10)>>

\* the digits after the point of str(float): "0" for a whole number, no trailing zero
FracStr(f) ==
    IF f = 0 THEN <<"0">>
    ELSE IF f % 100 = 0 THEN <<DigitChar(f \div 100)>>
    ELSE IF f % 10 = 0 THEN <<DigitChar(f \div 100), DigitChar((f \div 10) % 10)>>
    ELSE <<DigitChar(f \div 100), DigitChar((f \div 10) % 10), DigitChar(f % 10)>>

\* str(value): "None" for None, the text of a string, "7.0" for the number 7.0
PyStr(value) ==
    IF value.t = "null" THEN <<"N", "o", "n", "e">>
    ELSE IF value.t = "str" THEN value.s
    ELSE NatStr(value.n \div 1000) \o <<".">> \o FracStr(value.n % 1000)

\* safe_str(value, default=""): None gives the default, anything else str(value).strip()
safe_str(value) == IF value.t = "null" THEN <<>> ELSE Strip(PyStr(value))

RECURSIVE DigitsValue(_)
DigitsValue(s) == IF s = <<>> THEN 0 ELSE 10 * DigitsValue(SubSeq(s, 1, Len(s) - 1)) + DigitVal(s[Len(s)])

\* float(value) succeeds on a number and on a string that, stripped, is a decimal
\* numeral (here: a non-empty run of digits); it raises ValueError or TypeError otherwise
FloatOk(value) ==
    \/ value.t = "num"
    \/ /\ value.t = "str"
       /\ Strip(value.s) # <<>>
       /\ \A i \in 1..Len(Strip(value.s)) : Strip(value.s)[i] \in Digits

\* safe_convert_float(value, default): thousandths
safe_convert_float(value, default) ==
    IF ~FloatOk(value) THEN default
    ELSE IF value.t = "num" THEN value.n
    ELSE 1000 * DigitsValue(Strip(value.s))

\* int(x) truncates toward zero; x in thousandths, result a whole number
PyInt(x) == IF x >= 0 THEN x \div 1000 ELSE -((-x) \div 1000)

\* v * 2^k modulo M, for k up to 90 and M up to 1000, in three factors of 2^k
DoubleMod(v, k, M) ==
    LET a == IF k < 30 THEN k ELSE 30
        b == IF k - a < 30 THEN k - a ELSE 30
        c == k - a - b
    IN  ((((((v % M) * (2^a % M)) % M) * (2^b % M)) % M) * (2^c % M)) % M

\* the binary exponent e of the float n/1000 (n >= 1 thousandths): 2^e <= n/1000 < 2^(e+1)
RECURSIVE FloatExponent(_)
FloatExponent(n) ==
    IF n >= 2000 THEN FloatExponent(n \div 2) + 1
    ELSE IF n < 1000 THEN FloatExponent(2 * n) - 1
    ELSE 0

\* float(n/1000) is the binary64 number nearest to the decimal: its 53-bit significand
\* is n * 2^(52-e) / 1000 rounded to an integer. The result is 1000 times the
\* difference between the significand and that quotient: negative when the float is
\* below the decimal, 0 when the decimal is a binary fraction
FloatError(n) ==
    LET r == DoubleMod(n, 52 - FloatExponent(n), 1000)
    IN  IF r < 500 THEN -r ELSE 1000 - r

\* float(n/1000) * 100: the product of the significand by 100 has 59 or 60 bits and
\* is rounded to 53, to a multiple of 64 or of 128, half of which is `half`. The real
\* product n/10 is a multiple of it when it is a whole number; the float product is
\* whole, or it is just `below` the whole number n/10 when the error of the factor,
\* a tenth of FloatError in the same unit, is more than half a step under it
FloatTimes100(n) ==
    LET e     == FloatExponent(n)
        d     == FloatError(n)
        scale == IF e >= 0 THEN 1 ELSE 2^(-e)
        edge  == IF e >= 0 THEN 1280 * 2^e ELSE 1280
        half  == IF n * scale < edge \/ (n * scale = edge /\ d < 0) THEN 32 ELSE 64
    IN  [whole |-> n \div 10, below |-> n % 10 = 0 /\ 10 * half < -d]

\* int() of the float product: it is truncated toward zero
Truncated(n) == LET p == FloatTimes100(n) IN IF p.below THEN p.whole - 1 ELSE p.whole

\* the truncated products of the amounts up to 20.000, each worked out once
Products == [n \in 1..20000 |-> Truncated(n)] \o <<>>

\* int(x * 100) for a float x (in thousandths)
RECURSIVE IntTimes100(_)
IntTimes100(x) ==
    IF x = 0 THEN 0
    ELSE IF x < 0 THEN -IntTimes100(-x)
    ELSE IF x <= Len(Products) THEN Products[x]
    ELSE Truncated(x)

Years == {"2024"}
Months == {"03", "11"}
Days == {"10", "03", "17"}

\* datetime.strptime(s, "%Y-%m-%d") accepts s
IsDate(s) ==
    /\ Len(s) = 5
    /\ s[1] \in Years /\ s[2] = "-" /\ s[3] \in Months /\ s[4] = "-" /\ s[5] \in Days

\* the number a two-digit month or day field stands for
FieldNumber(f) == CASE f = "03" -> 3 [] f = "10" -> 10 [] f = "11" -> 11 [] f = "17" -> 17

\* the days of 2024 before the first of month m: January has 31, February 29, ...
DaysBefore(m) == <<0, 31, 60, 91, 121, 152, 182, 213, 244, 274, 305, 335>>[m]

\* datetime.strptime(s, "%Y-%m-%d").date(), as the day of the year 2024 (1 January is 1)
ParseDay(s) == DaysBefore(FieldNumber(s[3])) + FieldNumber(s[5])

\* 0 for a Monday .. 6 for a Sunday; 1 January 2024 is a Monday
Weekday(day) == (day - 1) % 7

\* ZoneInfo("America/New_York"): daylight time starts on the second Sunday of March
\* and ends on the first Sunday of November
DstStartDay == DaysBefore(3) + (CHOOSE d \in 8..14 : Weekday(DaysBefore(3) + d) = 6)

DstEndDay == DaysBefore(11) + (CHOOSE d \in 1..7 : Weekday(DaysBefore(11) + d) = 6)

\* eastern.utcoffset of a wall-clock time, in hours: the clocks go from 2:00 to 3:00
\* on the start day and from 2:00 back to 1:00 on the end day
WallOffset(day, hour) ==
    IF /\ day > DstStartDay \/ (day = DstStartDay /\ hour >= 3)
       /\ day < DstEndDay \/ (day = DstEndDay /\ hour < 2)
    THEN -4 ELSE -5

\* a date stored as midnight UTC of the day
AnchorMidnightUTC(day) == (day - 1) * 24

\* datetime.combine(date, time(hour=12), tzinfo=eastern).astimezone(ZoneInfo("UTC")):
\* the instant in hours since 2024-01-01 00:00 UTC
AnchorNoon(day) == (day - 1) * 24 + 12 - WallOffset(day, 12)

\* ------------------------------------------------------------ the store

\* collection.find_one({field: value}): the position of the first document, in
\* natural order, whose field equals value; 0 when there is none
FindOne(coll, field, value) ==
    IF \E i \in 1..Len(coll) : coll[i][field] = value
    THEN CHOOSE i \in 1..Len(coll) :
            /\ coll[i][field] = value
            /\ \A j \in 1..(i - 1) : coll[j][field] # value
    ELSE 0

OrderCount(os, k) == IF k \in DOMAIN os THEN os[k] ELSE 0

AddOrder(os, k) == [x \in DOMAIN os \cup {k} |-> OrderCount(os, x) + (IF x = k THEN 1 ELSE 0)]

\* an insert of order_number k is refused with a duplicate-key error
DupKey(os, index, k) == index /\ OrderCount(os, k) > 0

\* db.orders.bulk_write(ops) with ordered=True: the operations are applied in order
\* and the first error stops the batch
RECURSIVE BulkOrdered(_, _, _)
BulkOrdered(ops, os, index) ==
    IF ops = <<>> THEN [orders |-> os, nInserted |-> 0, writeErrors |-> 0]
    ELSE IF DupKey(os, index, Head(ops).order_number)
         THEN [orders |-> os, nInserted |-> 0, writeErrors |-> 1]
         ELSE LET r == BulkOrdered(Tail(ops), AddOrder(os, Head(ops).order_number), index)
              IN  [r EXCEPT !.nInserted = @ + 1]

\* db.orders.bulk_write(ops, ordered=False): every operation is attempted
RECURSIVE BulkUnordered(_, _, _)
BulkUnordered(ops, os, index) ==
    IF ops = <<>> THEN [orders |-> os, nInserted |-> 0, writeErrors |-> 0]
    ELSE IF DupKey(os, index, Head(ops).order_number)
         THEN LET r == BulkUnordered(Tail(ops), os, index)
              IN  [r EXCEPT !.writeErrors = @ + 1]
         ELSE LET r == BulkUnordered(Tail(ops), AddOrder(os, Head(ops).order_number), index)
              IN  [r EXCEPT !.nInserted = @ + 1]

\* db.orders.create_index("order_number", unique=True) fails when the collection
\* already holds two documents with one order_number
IndexBuildFails(os) == \E k \in DOMAIN os : os[k] > 1

\* --------------------------------------------- SalesOrderHistoryMigrator.py

\* a grouping that drops the records whose key is the empty string
RECURSIVE GroupLinesDropsEmpty(_, _)
GroupLinesDropsEmpty(data, acc) ==
    IF data = <<>> THEN acc
    ELSE LET line == Head(data)
             sono == safe_str(line.SONO)
             i    == FindOne(acc, "sono", sono)
         IN  GroupLinesDropsEmpty(Tail(data),
                        IF sono = <<>> THEN acc
                        ELSE IF i = 0 THEN Append(acc, [sono |-> sono, lines |-> <<line>>])
                        ELSE [acc EXCEPT ![i].lines = Append(@, line)])

\* orders_map.setdefault(sono, []).append(line), over the lines in file order: a
\* dict keeps its keys in insertion order, so the map is the sequence of its items
RECURSIVE GroupLines(_, _)
GroupLines(data, acc) ==
    IF data = <<>> THEN acc
    ELSE LET line == Head(data)
             sono == safe_str(line.SONO)
             i    == FindOne(acc, "sono", sono)
         IN  GroupLines(Tail(data),
                        IF i = 0 THEN Append(acc, [sono |-> sono, lines |-> <<line>>])
                        ELSE [acc EXCEPT ![i].lines = Append(@, line)])

\* price = int(price * 100) if price else 0
PriceCents(line) ==
    LET price == safe_convert_float(line.PRICE, 0)
    IN  IF price # 0 THEN IntTimes100(price) ELSE 0

\* a loop that keeps every line, with whatever the part lookup returned
RECURSIVE PartsListKeepsAll(_, _)
PartsListKeepsAll(lines, pcoll) ==
    IF lines = <<>> THEN <<>>
    ELSE LET line == Head(lines)
             part == FindOne(pcoll, "item_number", safe_str(line.ITEM))
         IN  <<[part_id |-> part,
                quantity |-> safe_convert_float(line.QTYORD, 0) + safe_convert_float(line.QTYSHP, 0),
                shipped |-> safe_convert_float(line.QTYSHP, 0),
                price |-> PriceCents(line)]>> \o PartsListKeepsAll(Tail(lines), pcoll)

\* the loop over an aggregate's lines: a line whose part is not found is left out
RECURSIVE PartsList(_, _)
PartsList(lines, pcoll) ==
    IF lines = <<>> THEN <<>>
    ELSE LET line    == Head(lines)
             item_no == safe_str(line.ITEM)
             part    == FindOne(pcoll, "item_number", item_no)
             qty_ord == safe_convert_float(line.QTYORD, 0)
             qty_shp == safe_convert_float(line.QTYSHP, 0)
             rest    == PartsList(Tail(lines), pcoll)
         IN  IF part = 0 THEN rest
             ELSE <<[part_id |-> part, quantity |-> qty_ord + qty_shp,
                     shipped |-> qty_shp, price |-> PriceCents(line)]>> \o rest

\* total_price = sum(p["quantity"] * p["price"] for p in parts_list)
RECURSIVE TotalPrice(_)
TotalPrice(parts_list) ==
    IF parts_list = <<>> THEN 0
    ELSE Head(parts_list).quantity * Head(parts_list).price + TotalPrice(Tail(parts_list))

\* lines[0].get("ORDATE").strip() and strptime(...): the exception they raise, if any
DateError(line) ==
    IF line.ORDATE.t # "str" \/ line.SHIPDATE.t # "str" THEN "AttributeError"
    ELSE IF ~IsDate(Strip(line.ORDATE.s)) \/ ~IsDate(Strip(line.SHIPDATE.s)) THEN "ValueError"
    ELSE "none"

\* a lookup that takes the customer code from the last line of the group
CustomerOfLastLine(lines, ccoll) ==
    FindOne(ccoll, "customer_number", safe_str(lines[Len(lines)].CUSTNO))

\* customer = db.customers.find_one({"customer_number": custno}), custno from lines[0]
CustomerOf(lines, ccoll) == FindOne(ccoll, "customer_number", safe_str(lines[1].CUSTNO))

\* what one pass of the loop body decides for an aggregate, before any flush
Decide(g, ccoll, pcoll) ==
    IF CustomerOf(g.lines, ccoll) = 0 THEN [k |-> "no_customer"]
    ELSE IF PartsList(g.lines, pcoll) = <<>> THEN [k |-> "no_parts"]
    ELSE IF DateError(g.lines[1]) # "none" THEN [k |-> "raise", err |-> DateError(g.lines[1])]
    ELSE [k |-> "stage",
          doc |-> [order_number |-> g.sono,
                   customer     |-> CustomerOf(g.lines, ccoll),
                   date         |-> AnchorNoon(ParseDay(Strip(g.lines[1].ORDATE.s))),
                   parts        |-> PartsList(g.lines, pcoll),
                   shipping_date |-> AnchorNoon(ParseDay(Strip(g.lines[1].SHIPDATE.s))),
                   total_price  |-> TotalPrice(PartsList(g.lines, pcoll))]]

\* the report of a run: what its print calls say
NoReport == [would_insert |-> 0, announced |-> 0, inserted |-> 0, skips |-> 0, summary |-> FALSE,
             log |-> {}]

IdleRun == [pc |-> "idle", dry_run |-> FALSE, batch_size |-> 1, orders_map |-> <<>>,
            idx |-> 1, bulk_ops |-> <<>>, processed |-> 0, err |-> "none",
            out |-> NoReport, orders0 |-> <<>>, index_calls |-> 0, written |-> <<>>]

Ended(p) == mig[p].pc \in {"done", "aborted", "killed"}

\* what is kept of an ended run when the script is started again
Summary(r, os) == [pc |-> r.pc, dry_run |-> r.dry_run, processed |-> r.processed,
                   out |-> r.out, err |-> r.err, orders0 |-> r.orders0, orders1 |-> os]

\* a run that leaves the collection as it found it, without the unique index
CreateIndexSkipped(index) == index

\* a call that leaves the collection without the unique index
CreateIndexDropped(index) == FALSE

\* db.orders.create_index("order_number", unique=True, background=True): whether
\* the collection carries the unique index afterwards
CreateIndex(index) == TRUE

\* a main() that ends with status 0 whatever happened
MigExitAlwaysZero(r) == IF r.pc \in {"done", "aborted", "unreachable"} THEN 0 ELSE -1

\* the exit status of main(): 0 after migrate_sales_orders returned, 1 after any
\* exception (the failed ping included), -1 while the process has not exited by itself
MigExit(r) == IF r.pc = "done" THEN 0
              ELSE IF r.pc \in {"aborted", "unreachable"} THEN 1 ELSE -1

\* main() up to the loop of migrate_sales_orders: the arguments, the ping, json.load
\* (which raises on a file that is not JSON), the grouping and, in a real run, the
\* index; a run whose ping fails ends there
MigBegin(p) ==
    /\ prog = "migrate"
    /\ \E dry \in BOOLEAN, bs \in 1..MaxBatch, ping \in BOOLEAN :
          LET fails == ~dry /\ ~orders_index /\ IndexBuildFails(orders)
              a0    == [IdleRun EXCEPT !.dry_run = dry, !.batch_size = bs, !.orders0 = orders]
              r0    == [a0 EXCEPT !.orders_map = GroupLines(sales_data, <<>>),
                                  !.index_calls = IF dry THEN 0 ELSE 1]
              bad   == files.malformed = "sales"
          IN  /\ mig' = [mig EXCEPT ![p] =
                          IF ~ping THEN [a0 EXCEPT !.pc = "unreachable", !.err = "ConnectionFailure"]
                          ELSE IF bad THEN [a0 EXCEPT !.pc = "aborted", !.err = "JSONDecodeError"]
                          ELSE IF fails THEN [r0 EXCEPT !.pc = "aborted", !.err = "OperationFailure"]
                          ELSE [r0 EXCEPT !.pc = "loop"]]
              /\ orders_index' = IF ~ping \/ bad \/ dry \/ fails THEN orders_index
                                 ELSE CreateIndex(orders_index)
    /\ UNCHANGED <<prog, link, sales_data, customers, parts, orders, impVars, convVars, fixVars, updVars>>

\* the first run of the script by process p
MigStart(p) ==
    /\ mig[p].pc = "idle"
    /\ MigBegin(p)
    /\ UNCHANGED prev

\* the script is run again, with the same sales file, after a run of it ended
MigRestart(p) ==
    /\ Ended(p)
    /\ MigBegin(p)
    /\ prev' = [prev EXCEPT ![p] = Summary(mig[p], orders)]

\* a mid-run flush that writes the batch whatever the mode of the run
MidFlushUnguarded(r, os, index) ==
    IF Len(r.bulk_ops) < r.batch_size THEN [run |-> r, orders |-> os]
    ELSE [run |-> [r EXCEPT !.out.announced = @ + Len(r.bulk_ops), !.bulk_ops = <<>>],
          orders |-> BulkUnordered(r.bulk_ops, os, index).orders]

\* the order numbers of a batch, in the order of its operations
Keys(ops) == [i \in 1..Len(ops) |-> ops[i].order_number]

\* if len(bulk_ops) >= batch_size: ... db.orders.bulk_write(bulk_ops); `written` keeps
\* the order numbers of the operations handed to bulk_write
MidFlush(r, os, index) ==
    IF Len(r.bulk_ops) < r.batch_size THEN [run |-> r, orders |-> os]
    ELSE IF r.dry_run
         THEN [run |-> [r EXCEPT !.out.would_insert = @ + Len(r.bulk_ops), !.bulk_ops = <<>>],
               orders |-> os]
         ELSE LET res == BulkOrdered(r.bulk_ops, os, index)
              IN  IF res.writeErrors > 0
                  THEN [run |-> [r EXCEPT !.out.announced = @ + Len(r.bulk_ops),
                                          !.written = @ \o Keys(r.bulk_ops),
                                          !.pc = "aborted", !.err = "BulkWriteError"],
                        orders |-> res.orders]
                  ELSE [run |-> [r EXCEPT !.out.announced = @ + Len(r.bulk_ops),
                                          !.written = @ \o Keys(r.bulk_ops),
                                          !.bulk_ops = <<>>],
                        orders |-> res.orders]

\* one pass of "for sono, lines in orders_map.items()"
MigIterate(p) ==
    /\ mig[p].pc = "loop"
    /\ mig[p].idx <= Len(mig[p].orders_map)
    /\ LET r == mig[p]
           d == Decide(r.orders_map[r.idx], customers, parts)
           n == [r EXCEPT !.idx = @ + 1]
       IN  CASE d.k = "no_customer" ->
                   /\ mig' = [mig EXCEPT ![p] = n]
                   /\ orders' = orders
             [] d.k = "no_parts" ->
                   /\ mig' = [mig EXCEPT ![p] =
                                [n EXCEPT !.out.log = @ \cup {[about |-> "no_parts",
                                                               key |-> r.orders_map[r.idx].sono]}]]
                   /\ orders' = orders
             [] d.k = "raise" ->
                   /\ mig' = [mig EXCEPT ![p] = [r EXCEPT !.pc = "aborted", !.err = d.err]]
                   /\ orders' = orders
             [] d.k = "stage" ->
                   LET f == MidFlush([n EXCEPT !.bulk_ops = Append(@, d.doc),
                                               !.processed = @ + 1], orders, orders_index)
                   IN  /\ mig' = [mig EXCEPT ![p] = f.run]
                       /\ orders' = f.orders
    /\ UNCHANGED <<prog, link, sales_data, customers, parts, orders_index, prev, impVars, convVars, fixVars, updVars>>

\* "Final batch": if bulk_ops: ... bulk_write(bulk_ops, ordered=False) in a try
MigFinal(p) ==
    /\ mig[p].pc = "loop"
    /\ mig[p].idx > Len(mig[p].orders_map)
    /\ LET r == mig[p]
           res == BulkUnordered(r.bulk_ops, orders, orders_index)
       IN  IF r.bulk_ops = <<>>
           THEN /\ mig' = [mig EXCEPT ![p].pc = "done"]
                /\ orders' = orders
           ELSE IF r.dry_run
           THEN /\ mig' = [mig EXCEPT ![p].pc = "done",
                                      ![p].out.would_insert = @ + Len(r.bulk_ops)]
                /\ orders' = orders
           ELSE /\ mig' = [mig EXCEPT ![p].pc = "done",
                                      ![p].out.announced = @ + Len(r.bulk_ops),
                                      ![p].written = @ \o Keys(r.bulk_ops),
                                      ![p].out.inserted = @ + res.nInserted,
                                      ![p].out.skips = @ + res.writeErrors,
                                      ![p].out.summary = (res.writeErrors > 0)]
                /\ orders' = res.orders
    /\ UNCHANGED <<prog, link, sales_data, customers, parts, orders_index, prev, impVars, convVars, fixVars, updVars>>

\* the process is stopped between two passes of the loop of a real run
MigInterrupt(p) ==
    /\ mig[p].pc = "loop"
    /\ ~mig[p].dry_run
    /\ mig' = [mig EXCEPT ![p].pc = "killed"]
    /\ UNCHANGED <<prog, link, sales_data, customers, parts, orders, orders_index, prev, impVars, convVars, fixVars, updVars>>

MigNext(p) == MigStart(p) \/ MigRestart(p) \/ MigIterate(p) \/ MigFinal(p) \/ MigInterrupt(p)

\* ---------------------------------------- SalesOrderMissingPartsImporter.py

\* parse_warnings: the part numbers of the lines that match "Part\s+(\S+)\s+not found"
parse_warnings(file) == {file[i].item : i \in {j \in 1..Len(file) : file[j].k = "part"}}

\* parts_lookup = {safe_str(p.get("ITEM")): p for p in parts_data}: a later record
\* of the file replaces an earlier one with the same key; 0 when the key is absent
PartsLookup(file, item_no) ==
    IF \E i \in 1..Len(file) : safe_str(file[i].ITEM) = item_no
    THEN CHOOSE i \in 1..Len(file) :
            /\ safe_str(file[i].ITEM) = item_no
            /\ \A j \in (i + 1)..Len(file) : safe_str(file[j].ITEM) # item_no
    ELSE 0

\* the part document built from a legacy record
NewPartDoc(item_no, legacy) ==
    [item_number      |-> item_no,
     description      |-> safe_str(legacy.DESCRIP),
     quantity_on_hand |-> safe_convert_float(legacy.ONHAND, 0),
     default_price    |-> IntTimes100(safe_convert_float(legacy.PRICE, 0)),
     location         |-> safe_str(legacy.SEQ),
     notes            |-> safe_str(legacy.VPARTNO),
     createdAt        |-> "now",
     updatedAt        |-> "now"]

\* a probe that finds no part, whatever the collection holds
PartNeverExists(pcoll, item_no) == FALSE

\* db.parts.count_documents({"item_number": item_no}, limit=1) > 0
PartExists(pcoll, item_no) == \E i \in 1..Len(pcoll) : pcoll[i].item_number = item_no

IdleImport == [pc |-> "idle", dry_run |-> FALSE, missing_parts |-> {}, todo |-> {},
               item_no |-> <<>>, inserted |-> 0, skipped |-> 0, parts0 |-> <<>>]

ImpEnded(p) == imp[p].pc = "done"

\* the exit status of main(): sys.exit(1) after the failed ping, 0 at the end and after
\* sys.exit(0) for an empty warnings file, -1 while the process runs
ImpExit(r) == IF r.pc = "done" THEN 0 ELSE IF r.pc = "unreachable" THEN 1 ELSE -1

\* main() up to the loop: the arguments, parse_warnings (no missing part: exit), the
\* parts file, then the ping; a run whose ping fails ends there
ImpBegin(p) ==
    /\ prog = "import"
    /\ \E dry \in BOOLEAN, ping \in BOOLEAN :
          LET missing == parse_warnings(warnings)
          IN  imp' = [imp EXCEPT ![p] =
                        [IdleImport EXCEPT !.dry_run = dry, !.missing_parts = missing,
                                           !.todo = IF missing # {} /\ ~ping THEN {} ELSE missing,
                                           !.parts0 = parts,
                                           !.pc = IF missing = {} THEN "done"
                                                  ELSE IF ~ping THEN "unreachable" ELSE "loop"]]
    /\ UNCHANGED <<prog, link, customers, parts, orders, orders_index, migVars, convVars, fixVars, updVars, warnings, parts_file>>

ImpStart(p) ==
    /\ imp[p].pc = "idle"
    /\ ImpBegin(p)
    /\ UNCHANGED prev

\* the importer is run again, with the same files, after a run of it ended
ImpRestart(p) ==
    /\ ImpEnded(p)
    /\ ImpBegin(p)
    /\ prev' = [prev EXCEPT ![p] = [pc |-> "done", dry_run |-> imp[p].dry_run,
                                    inserted |-> imp[p].inserted, skipped |-> imp[p].skipped,
                                    parts0 |-> imp[p].parts0, parts1 |-> parts]]

\* what a pass of the loop does once the existence probe has answered
AfterProbe(r, item_no, exists) ==
    IF exists THEN [r EXCEPT !.skipped = @ + 1]
    ELSE IF PartsLookup(parts_file, item_no) = 0 THEN r
    ELSE IF r.dry_run THEN [r EXCEPT !.inserted = @ + 1]
    ELSE [r EXCEPT !.pc = "insert", !.item_no = item_no]

\* one pass of "for item_no in missing_parts" (a set: any order) up to its insert_one
ImpProbe(p) ==
    /\ imp[p].pc = "loop"
    /\ imp[p].todo # {}
    /\ \E item_no \in imp[p].todo :
          imp' = [imp EXCEPT ![p] =
                    AfterProbe([imp[p] EXCEPT !.todo = @ \ {item_no}], item_no,
                               PartExists(parts, item_no))]
    /\ UNCHANGED <<prog, link, customers, parts, orders, orders_index, migVars, convVars, fixVars, updVars, warnings, parts_file, prev>>

\* db.parts.insert_one(doc); inserted += 1
ImpInsert(p) ==
    /\ imp[p].pc = "insert"
    /\ parts' = Append(parts, NewPartDoc(imp[p].item_no,
                                         parts_file[PartsLookup(parts_file, imp[p].item_no)]))
    /\ imp' = [imp EXCEPT ![p].pc = "loop", ![p].inserted = @ + 1]
    /\ UNCHANGED <<prog, link, customers, orders, orders_index, migVars, convVars, fixVars, updVars, warnings, parts_file, prev>>

\* print(f"Done. Inserted: {inserted}, Skipped: {skipped}.")
ImpDone(p) ==
    /\ imp[p].pc = "loop"
    /\ imp[p].todo = {}
    /\ imp' = [imp EXCEPT ![p].pc = "done"]
    /\ UNCHANGED <<prog, link, customers, parts, orders, orders_index, migVars, convVars, fixVars, updVars, warnings, parts_file, prev>>

ImpNext(p) == ImpStart(p) \/ ImpRestart(p) \/ ImpProbe(p) \/ ImpInsert(p) \/ ImpDone(p)

\* ------------------------------------------------------------- Convert.py
\* The legacy records of the loader's files carry the fields read below; the fields
\* a record does not carry (ADDRESS1.., PTERMS, EMAIL, ...) read as None and give
\* the same constant in every document, so the documents leave them out.

\* create_contact(db, full_name, phone, fax, email, company, title): the document
ContactDoc(item) ==
    [first_name    |-> safe_str(item.CONTACT),
     phone_numbers |-> IF safe_str(item.PHONE) # <<>> THEN <<safe_str(item.PHONE)>> ELSE <<>>,
     company       |-> safe_str(item.COMPANY)]

\* the contacts collection after create_contact for each record, from position i on
RECURSIVE WithContacts(_, _, _)
WithContacts(ccoll, data, i) ==
    IF i > Len(data) THEN ccoll
    ELSE WithContacts(Append(ccoll, ContactDoc(data[i])), data, i + 1)

\* supplier_doc of load_suppliers; contact_id is the id create_contact returned
SupplierDoc(item, contact_id) ==
    [vendor_number  |-> safe_str(item.VENDNO),
     company_name   |-> IF safe_str(item.COMPANY) # <<>> THEN safe_str(item.COMPANY)
                        ELSE <<"Unknown Company">>,
     phone_contacts |-> IF item.PHONE.t # "null" /\ item.PHONE # JStr(<<>>)
                        THEN <<safe_str(item.PHONE)>> ELSE <<>>,
     contacts       |-> <<contact_id>>]

\* customer_doc of load_customers
CustomerDoc(item, contact_id) ==
    [customer_number    |-> safe_str(item.CUSTNO),
     company_name       |-> IF safe_str(item.COMPANY) # <<>> THEN safe_str(item.COMPANY)
                            ELSE <<"Unknown Customer">>,
     phone_contacts     |-> IF item.PHONE.t # "null" /\ item.PHONE # JStr(<<>>)
                            THEN <<safe_str(item.PHONE)>> ELSE <<>>,
     shipping_addresses |-> <<>>,
     contacts           |-> <<contact_id>>]

\* the id map built by "for old_item, inserted_id in zip(data, result.inserted_ids)":
\* a later record with the same code replaces the earlier one; base is the number of
\* documents the collection held before insert_many
IdMap(data, field, base) ==
    [code \in {safe_str(data[i][field]) : i \in 1..Len(data)} |->
        base + (CHOOSE i \in 1..Len(data) :
                  /\ safe_str(data[i][field]) = code
                  /\ \A j \in (i + 1)..Len(data) : safe_str(data[j][field]) # code)]

\* safe_convert_int(value, default): int() of a float truncates, of a string of
\* digits parses, of anything else raises
safe_convert_int(value, default) ==
    IF ~FloatOk(value) THEN default
    ELSE IF value.t = "num" THEN PyInt(value.n)
    ELSE DigitsValue(Strip(value.s))

\* part_doc of load_parts
LoaderPartDoc(item, supplier_id_map) ==
    [item_number      |-> safe_str(item.ITEM),
     description      |-> safe_str(item.DESCRIP),
     suppliers        |-> IF safe_str(item.SUPPLIER) \in DOMAIN supplier_id_map
                          THEN <<supplier_id_map[safe_str(item.SUPPLIER)]>> ELSE <<>>,
     quantity_on_hand |-> safe_convert_int(item.ONHAND, 0),
     default_price    |-> IntTimes100(safe_convert_float(item.PRICE, 0))]

\* parse_city_state_zip keeps the whole line as the city when it holds no comma
ShippingAddr(item) ==
    [name   |-> safe_str(item.COMPANY),
     street |-> safe_str(item.ADDRESS1),
     city   |-> safe_str(item.ADDRESS3)]

\* shipping_dict[custno].append(shipping_addr) over the file, then one update_one
\* with $push/$each per customer number the id map knows
RECURSIVE PushShipping(_, _, _, _)
PushShipping(ccoll, data, i, customer_id_map) ==
    IF i > Len(data) THEN ccoll
    ELSE LET custno == safe_str(data[i].CUSTNO)
         IN  PushShipping(
                 IF custno \in DOMAIN customer_id_map
                 THEN [ccoll EXCEPT ![customer_id_map[custno]].shipping_addresses =
                                       Append(@, ShippingAddr(data[i]))]
                 ELSE ccoll,
                 data, i + 1, customer_id_map)

IdleLoad == [pc |-> "idle", supplier_id_map |-> <<>>, customer_id_map |-> <<>>,
             err |-> "none", runs |-> 0]

\* main(): load_suppliers.  json.load raises on a file that is not JSON; insert_many
\* refuses an empty list of documents
ConvBegin ==
    /\ prog = "convert"
    /\ LET data == files.suppliers
           base == Len(suppliers)
       IN  IF files.malformed = "suppliers"
           THEN /\ conv' = [IdleLoad EXCEPT !.pc = "aborted", !.err = "JSONDecodeError",
                                            !.runs = conv.runs + 1]
                /\ UNCHANGED <<suppliers, contacts>>
           ELSE IF data = <<>>
           THEN /\ conv' = [IdleLoad EXCEPT !.pc = "aborted", !.err = "TypeError",
                                            !.runs = conv.runs + 1]
                /\ UNCHANGED <<suppliers, contacts>>
           ELSE /\ contacts' = WithContacts(contacts, data, 1)
                /\ suppliers' = suppliers \o
                      [i \in 1..Len(data) |-> SupplierDoc(data[i], Len(contacts) + i)]
                /\ conv' = [IdleLoad EXCEPT !.pc = "customers", !.runs = conv.runs + 1,
                                            !.supplier_id_map = IdMap(data, "VENDNO", base)]
    /\ UNCHANGED <<prog, link, customers, parts, orders, orders_index, migVars, impVars, fixVars, updVars, files>>

ConvStart ==
    /\ conv.pc = "idle"
    /\ ConvBegin
    /\ UNCHANGED prev

\* the loader is run again, with the same files, after a run of it ended
ConvRestart ==
    /\ conv.pc \in {"done", "aborted"}
    /\ conv.runs < MaxRuns
    /\ ConvBegin
    /\ prev' = [prev EXCEPT ![1] = [pc |-> conv.pc, suppliers1 |-> suppliers,
                                    customers1 |-> customers, parts1 |-> parts]]

\* main(): load_customers
ConvCustomers ==
    /\ conv.pc = "customers"
    /\ LET data == files.customers
           base == Len(customers)
       IN  IF files.malformed = "customers"
           THEN /\ conv' = [conv EXCEPT !.pc = "aborted", !.err = "JSONDecodeError"]
                /\ UNCHANGED <<customers, contacts>>
           ELSE IF data = <<>>
           THEN /\ conv' = [conv EXCEPT !.pc = "aborted", !.err = "TypeError"]
                /\ UNCHANGED <<customers, contacts>>
           ELSE /\ contacts' = WithContacts(contacts, data, 1)
                /\ customers' = customers \o
                      [i \in 1..Len(data) |-> CustomerDoc(data[i], Len(contacts) + i)]
                /\ conv' = [conv EXCEPT !.pc = "parts",
                                        !.customer_id_map = IdMap(data, "CUSTNO", base)]
    /\ UNCHANGED <<prog, link, parts, orders, orders_index, migVars, impVars, fixVars, updVars, suppliers, files, prev>>

\* main(): load_parts
ConvParts ==
    /\ conv.pc = "parts"
    /\ IF files.malformed = "parts"
       THEN /\ conv' = [conv EXCEPT !.pc = "aborted", !.err = "JSONDecodeError"]
            /\ parts' = parts
       ELSE /\ parts' = parts \o [i \in 1..Len(files.parts) |->
                                     LoaderPartDoc(files.parts[i], conv.supplier_id_map)]
            /\ conv' = [conv EXCEPT !.pc = "shipping"]
    /\ UNCHANGED <<prog, link, customers, orders, orders_index, migVars, impVars, fixVars, updVars,
                   suppliers, contacts, files, prev>>

\* main(): load_customer_shipping_addresses
ConvShipping ==
    /\ conv.pc = "shipping"
    /\ IF files.malformed = "shipping"
       THEN /\ conv' = [conv EXCEPT !.pc = "aborted", !.err = "JSONDecodeError"]
            /\ customers' = customers
       ELSE /\ customers' = PushShipping(customers, files.shipping, 1, conv.customer_id_map)
            /\ conv' = [conv EXCEPT !.pc = "done"]
    /\ UNCHANGED <<prog, link, parts, orders, orders_index, migVars, impVars, fixVars, updVars,
                   suppliers, contacts, files, prev>>

ConvNext == ConvStart \/ ConvRestart \/ ConvCustomers \/ ConvParts \/ ConvShipping

\* ------------------------------------------------- FixItemNumberDotZero.py

EndsWithDotZero(s) == Len(s) >= 2 /\ s[Len(s) - 1] = "." /\ s[Len(s)] = "0"

\* the fixer's own safe_str(value): str(value).strip() without a trailing ".0"
FixSafeStr(value) ==
    IF value.t = "null" THEN <<>>
    ELSE LET t == Strip(PyStr(value))
         IN  IF EndsWithDotZero(t) THEN SubSeq(t, 1, Len(t) - 2) ELSE t

\* new_raw = {str(p.get("ITEM")).strip() for p in new_parts}
NewRaw(file) == {Strip(PyStr(file[i].ITEM)) : i \in 1..Len(file)}

\* new_stripped = {safe_str(p.get("ITEM")) for p in new_parts}
NewStripped(file) == {FixSafeStr(file[i].ITEM) : i \in 1..Len(file)}

\* what the loop body decides for one legacy record
FixDecide(part, file) ==
    LET raw_old   == Strip(PyStr(part.ITEM))
        candidate == SubSeq(raw_old, 1, Len(raw_old) - 2)
        alt       == <<"0">> \o candidate
    IN  IF ~EndsWithDotZero(raw_old) THEN [k |-> "other"]
        ELSE IF raw_old \in NewRaw(file) THEN [k |-> "up_to_date", old |-> raw_old]
        ELSE IF candidate \in NewRaw(file) \/ candidate \in NewStripped(file)
             THEN [k |-> "rename", old |-> raw_old, new_item |-> candidate]
        ELSE IF alt \in NewRaw(file) \/ alt \in NewStripped(file)
             THEN [k |-> "rename", old |-> raw_old, new_item |-> alt]
        ELSE [k |-> "no_match", old |-> raw_old]

\* db.parts.bulk_write of UpdateOne({"item_number": old}, {"$set": {"item_number": new}})
RECURSIVE ApplyRenames(_, _)
ApplyRenames(ops, pcoll) ==
    IF ops = <<>> THEN [parts |-> pcoll, modified_count |-> 0]
    ELSE LET i == FindOne(pcoll, "item_number", Head(ops).old)
         IN  IF i = 0 THEN ApplyRenames(Tail(ops), pcoll)
             ELSE LET r == ApplyRenames(Tail(ops),
                                        [pcoll EXCEPT ![i].item_number = Head(ops).new_item])
                  IN  [r EXCEPT !.modified_count = @ + 1]

IdleFix == [pc |-> "idle", dry_run |-> FALSE, batch_size |-> 1, idx |-> 1, bulk_ops |-> <<>>,
            applied |-> <<>>, skipped_up_to_date |-> <<>>, skipped_no_match |-> <<>>,
            updated |-> 0, would |-> 0, progress |-> 0, written |-> <<>>]

\* the exit status of main(): sys.exit(1) after the failed ping, 0 when main returns,
\* -1 while the process runs
FixExit(r) == IF r.pc = "done" THEN 0 ELSE IF r.pc = "unreachable" THEN 1 ELSE -1

\* main() up to the loop of update_item_numbers: the arguments, the ping and the two
\* files; a run whose ping fails ends there
FixStart ==
    /\ prog = "fix"
    /\ fix.pc = "idle"
    /\ \E dry \in BOOLEAN, bs \in 1..MaxBatch, ping \in BOOLEAN :
          fix' = [IdleFix EXCEPT !.pc = IF ping THEN "loop" ELSE "unreachable",
                                 !.dry_run = dry, !.batch_size = bs]
    /\ UNCHANGED <<prog, link, customers, parts, orders, orders_index, migVars, impVars, convVars,
                   old_file, new_file, updVars, prev>>

\* a flush that leaves the batch as it is
FixFlushKeepsBatch(r, pcoll, full) ==
    IF (full /\ Len(r.bulk_ops) < r.batch_size) \/ r.bulk_ops = <<>>
    THEN [run |-> r, parts |-> pcoll]
    ELSE IF r.dry_run
         THEN [run |-> [r EXCEPT !.would = @ + Len(r.bulk_ops)], parts |-> pcoll]
         ELSE LET res == ApplyRenames(r.bulk_ops, pcoll)
              IN  [run |-> [r EXCEPT !.updated = @ + res.modified_count,
                                     !.written = @ \o r.bulk_ops],
                   parts |-> res.parts]

\* "flush batches": if len(bulk_ops) >= batch_size ... bulk_ops.clear(), and the
\* "final flush"; `written` keeps the operations handed to bulk_write
FixFlush(r, pcoll, full) ==
    IF (full /\ Len(r.bulk_ops) < r.batch_size) \/ r.bulk_ops = <<>>
    THEN [run |-> r, parts |-> pcoll]
    ELSE IF r.dry_run
         THEN [run |-> [r EXCEPT !.would = @ + Len(r.bulk_ops), !.bulk_ops = <<>>],
               parts |-> pcoll]
         ELSE LET res == ApplyRenames(r.bulk_ops, pcoll)
              IN  [run |-> [r EXCEPT !.updated = @ + res.modified_count,
                                     !.written = @ \o r.bulk_ops, !.bulk_ops = <<>>],
                   parts |-> res.parts]

\* max(1, total // 20)
ProgressInterval(total) == IF total \div 20 > 1 THEN total \div 20 ELSE 1

\* one pass of "for idx, part in enumerate(old_parts, start=1)"
FixIterate ==
    /\ fix.pc = "loop"
    /\ fix.idx <= Len(old_file)
    /\ LET d == FixDecide(old_file[fix.idx], new_file)
           n == [fix EXCEPT !.idx = @ + 1]
       IN  IF d.k = "no_match"
           THEN /\ fix' = [n EXCEPT !.skipped_no_match = Append(@, d.old)]
                /\ parts' = parts
           ELSE LET r == CASE d.k = "up_to_date" ->
                                [n EXCEPT !.skipped_up_to_date = Append(@, d.old)]
                           [] d.k = "rename" ->
                                [n EXCEPT !.bulk_ops = Append(@, [old |-> d.old, new_item |-> d.new_item]),
                                          !.applied  = Append(@, <<d.old, d.new_item>>)]
                           [] d.k = "other" -> n
                    f == FixFlush(r, parts, TRUE)
                IN  /\ fix' = [f.run EXCEPT !.progress =
                                 IF fix.idx % ProgressInterval(Len(old_file)) = 0 THEN @ + 1 ELSE @]
                    /\ parts' = f.parts
    /\ UNCHANGED <<prog, link, customers, orders, orders_index, migVars, impVars, convVars,
                   old_file, new_file, updVars, prev>>

\* "final flush" and the summary
FixFinal ==
    /\ fix.pc = "loop"
    /\ fix.idx > Len(old_file)
    /\ LET f == FixFlush(fix, parts, FALSE)
       IN  /\ fix' = [f.run EXCEPT !.pc = "done"]
           /\ parts' = f.parts
    /\ UNCHANGED <<prog, link, customers, orders, orders_index, migVars, impVars, convVars,
                   old_file, new_file, updVars, prev>>

FixNext == FixStart \/ FixIterate \/ FixFinal

\* ------------------------------------------------ UpdatePartNotesQuantities.py

\* a join that leaves the empty strings of the list out
RECURSIVE JoinNonEmpty(_)
JoinNonEmpty(ls) ==
    IF ls = <<>> THEN <<>>
    ELSE IF ls[1] = <<>> THEN JoinNonEmpty(Tail(ls))
    ELSE IF JoinNonEmpty(Tail(ls)) = <<>> THEN ls[1]
    ELSE ls[1] \o <<"\n">> \o JoinNonEmpty(Tail(ls))

\* "\n".join of a list of strings
RECURSIVE JoinLines(_)
JoinLines(ls) ==
    IF ls = <<>> THEN <<>>
    ELSE IF Len(ls) = 1 THEN ls[1]
    ELSE ls[1] \o <<"\n">> \o JoinLines(Tail(ls))

\* note_text of one notes record
NoteText(note) ==
    JoinLines(<<safe_str(note.LINE1), safe_str(note.LINE2), safe_str(note.LINE3),
                safe_str(note.LINE4), safe_str(note.LINE5), safe_str(note.LINE6)>>)

\* notes_lookup[item_no]: the text of the last notes record with the key; 0 if none
NotesLookup(file, item_no) ==
    IF \E i \in 1..Len(file) : safe_str(file[i].ITEM) = item_no
    THEN CHOOSE i \in 1..Len(file) :
            /\ safe_str(file[i].ITEM) = item_no
            /\ \A j \in (i + 1)..Len(file) : safe_str(file[j].ITEM) # item_no
    ELSE 0

\* combined_notes of one part
CombinedNotes(part, file) ==
    LET item_no == safe_str(part.ITEM)
        vpartno == safe_str(part.VPARTNO)
        i       == NotesLookup(file, item_no)
    IN  IF i # 0 /\ Strip(NoteText(file[i])) # <<>>
        THEN IF vpartno # <<>> THEN vpartno \o <<"\n">> \o NoteText(file[i])
             ELSE NoteText(file[i])
        ELSE vpartno

\* UpdateOne({"item_number": item_no}, {"$set": {...}}, upsert=True)
UpdateOp(part, file) ==
    [item_no          |-> safe_str(part.ITEM),
     quantity_on_hand |-> safe_convert_int(part.ONHAND, 0),
     location         |-> safe_str(part.SEQ),
     notes            |-> CombinedNotes(part, file)]

\* db.parts.bulk_write of the upserting UpdateOne operations
RECURSIVE ApplyUpdates(_, _)
ApplyUpdates(ops, pcoll) ==
    IF ops = <<>> THEN [parts |-> pcoll, modified_count |-> 0, upserted_count |-> 0]
    ELSE LET op == Head(ops)
             i  == FindOne(pcoll, "item_number", op.item_no)
         IN  IF i = 0
             THEN LET r == ApplyUpdates(Tail(ops),
                               Append(pcoll, [item_number      |-> op.item_no,
                                              quantity_on_hand |-> op.quantity_on_hand,
                                              location         |-> op.location,
                                              notes            |-> op.notes,
                                              updatedAt        |-> "now"]))
                  IN  [r EXCEPT !.upserted_count = @ + 1]
             ELSE LET r == ApplyUpdates(Tail(ops),
                               [pcoll EXCEPT ![i].quantity_on_hand = op.quantity_on_hand,
                                             ![i].location = op.location,
                                             ![i].notes = op.notes,
                                             ![i].updatedAt = "now"])
                  IN  [r EXCEPT !.modified_count = @ + 1]

IdleUpdate == [pc |-> "idle", dry_run |-> FALSE, batch_size |-> 1, idx |-> 1,
               bulk_operations |-> <<>>, processed_count |-> 0, updated_count |-> 0,
               would |-> 0, written |-> <<>>]

\* the value main() returns to sys.exit: 1 after any exception (the failed ping
\* included), 0 at the end, -1 while the process runs
UpdExit(r) == IF r.pc = "done" THEN 0 ELSE IF r.pc = "unreachable" THEN 1 ELSE -1

\* main() up to the loop of update_parts: the ping, the files, the notes lookup and,
\* in a real run, db.parts.create_index("item_number", background=True); a run whose
\* ping fails ends there
UpdStart ==
    /\ prog = "update"
    /\ upd.pc = "idle"
    /\ \E dry \in BOOLEAN, bs \in 1..MaxBatch, ping \in BOOLEAN :
          /\ upd' = [IdleUpdate EXCEPT !.pc = IF ping THEN "loop" ELSE "unreachable",
                                      !.dry_run = dry, !.batch_size = bs]
          /\ parts_index' = IF dry \/ ~ping THEN parts_index ELSE TRUE
    /\ UNCHANGED <<prog, link, customers, parts, orders, orders_index, migVars, impVars, convVars,
                   fixVars, notes_file, prev>>

\* "Execute batch if we've reached the batch size"
UpdFlush(r, pcoll, full) ==
    IF (full /\ Len(r.bulk_operations) < r.batch_size) \/ r.bulk_operations = <<>>
    THEN [run |-> r, parts |-> pcoll]
    ELSE IF r.dry_run
         THEN [run |-> [r EXCEPT !.would = @ + Len(r.bulk_operations), !.bulk_operations = <<>>],
               parts |-> pcoll]
         ELSE LET res == ApplyUpdates(r.bulk_operations, pcoll)
              IN  [run |-> [r EXCEPT !.updated_count = @ + res.modified_count + res.upserted_count,
                                     !.written = @ \o r.bulk_operations,
                                     !.bulk_operations = <<>>],
                   parts |-> res.parts]

\* one pass of "for part in parts_data"
UpdIterate ==
    /\ upd.pc = "loop"
    /\ upd.idx <= Len(parts_file)
    /\ LET f == UpdFlush([upd EXCEPT !.idx = @ + 1,
                                     !.bulk_operations =
                                         Append(@, UpdateOp(parts_file[upd.idx], notes_file)),
                                     !.processed_count = @ + 1], parts, TRUE)
       IN  /\ upd' = f.run
           /\ parts' = f.parts
    /\ UNCHANGED <<prog, link, customers, orders, orders_index, migVars, warnings, parts_file, imp,
                   convVars, fixVars, notes_file, parts_index, prev>>

\* "Execute any remaining operations" and the closing lines
UpdFinal ==
    /\ upd.pc = "loop"
    /\ upd.idx > Len(parts_file)
    /\ LET f == UpdFlush(upd, parts, FALSE)
       IN  /\ upd' = [f.run EXCEPT !.pc = "done"]
           /\ parts' = f.parts
    /\ UNCHANGED <<prog, link, customers, orders, orders_index, migVars, warnings, parts_file, imp,
                   convVars, fixVars, notes_file, parts_index, prev>>

UpdNext == UpdStart \/ UpdIterate \/ UpdFinal

\* ------------------------------------------------- ContactCompanyUpdate.py

\* the lower-case form of a character
Lower(c) == CASE c = "A" -> "a" [] c = "C" -> "c" [] c = "D" -> "d" [] OTHER -> c

Fold(s) == [i \in 1..Len(s) |-> Lower(s[i])]

\* {"company_name": re.compile(f"^{re.escape(company_name)}$", re.IGNORECASE)} matches
\* a document: its company_name is the whole pattern text, letter case apart
NameMatches(company_name, doc) == Fold(doc.company_name) = Fold(company_name)

\* collection.find_one({"company_name": regex_pattern}): the position of the first
\* matching document; 0 when there is none
FindCompany(coll, company_name) ==
    IF \E i \in 1..Len(coll) : NameMatches(company_name, coll[i])
    THEN CHOOSE i \in 1..Len(coll) :
            /\ NameMatches(company_name, coll[i])
            /\ \A j \in 1..(i - 1) : ~NameMatches(company_name, coll[j])
    ELSE 0

\* a resolution that asks the suppliers before the customers
ResolveSupplierFirst(company_name, ccoll, scoll) ==
    IF FindCompany(scoll, company_name) # 0
    THEN [company_type |-> "supplier", company_id |-> FindCompany(scoll, company_name)]
    ELSE IF FindCompany(ccoll, company_name) # 0
    THEN [company_type |-> "customer", company_id |-> FindCompany(ccoll, company_name)]
    ELSE [company_type |-> "none", company_id |-> 0]

\* customer = db.customers.find_one(...); if customer: ...; supplier =
\* db.suppliers.find_one(...); if supplier: ...
Resolve(company_name, ccoll, scoll) ==
    IF FindCompany(ccoll, company_name) # 0
    THEN [company_type |-> "customer", company_id |-> FindCompany(ccoll, company_name)]
    ELSE IF FindCompany(scoll, company_name) # 0
    THEN [company_type |-> "supplier", company_id |-> FindCompany(scoll, company_name)]
    ELSE [company_type |-> "none", company_id |-> 0]

\* what the loop body decides for a contact
LinkDecide(contact, ccoll, scoll) ==
    IF safe_str(contact.company) = <<>> THEN [k |-> "no_company"]
    ELSE IF contact.company_id # 0 /\ contact.company_type # "none" THEN [k |-> "already_linked"]
    ELSE LET r == Resolve(safe_str(contact.company), ccoll, scoll)
         IN  IF r.company_type = "none" THEN [k |-> "not_found"]
             ELSE [k |-> "update", set |-> r]

IdleLink == [pc |-> "idle", dry_run |-> FALSE, todo |-> <<>>, idx |-> 1, decided |-> <<>>,
             updated |-> 0, no_company |-> 0, already_linked |-> 0, not_found |-> 0,
             summary |-> FALSE]

\* main(): db.command("ping"), contacts = list(db.contacts.find()), sys.exit(0) when
\* there is none
LinkStart ==
    /\ prog = "link"
    /\ link.pc = "idle"
    /\ \E dry \in BOOLEAN, ping \in BOOLEAN :
          link' = [IdleLink EXCEPT !.dry_run = dry,
                                   !.todo = IF ping THEN contacts ELSE <<>>,
                                   !.pc = IF ~ping THEN "unreachable"
                                          ELSE IF contacts = <<>> THEN "done" ELSE "loop"]
    /\ UNCHANGED <<prog, customers, parts, orders, orders_index, migVars, impVars, convVars,
                   fixVars, updVars, prev>>

\* one pass of "for contact in contacts": the contact is the document as it was read
\* at the start, the update goes to the document of the same _id
LinkIterate ==
    /\ prog = "link"
    /\ link.pc = "loop"
    /\ link.idx <= Len(link.todo)
    /\ LET d == LinkDecide(link.todo[link.idx], customers, suppliers)
           n == [link EXCEPT !.idx = @ + 1, !.decided = Append(@, d)]
       IN  CASE d.k = "no_company" ->
                   /\ link' = [n EXCEPT !.no_company = @ + 1]
                   /\ contacts' = contacts
             [] d.k = "already_linked" ->
                   /\ link' = [n EXCEPT !.already_linked = @ + 1]
                   /\ contacts' = contacts
             [] d.k = "not_found" ->
                   /\ link' = [n EXCEPT !.not_found = @ + 1]
                   /\ contacts' = contacts
             [] d.k = "update" ->
                   /\ link' = [n EXCEPT !.updated = @ + 1]
                   /\ contacts' = IF link.dry_run THEN contacts
                                  ELSE [contacts EXCEPT ![link.idx].company_id = d.set.company_id,
                                                        ![link.idx].company_type = d.set.company_type,
                                                        ![link.idx].updatedAt = "t1"]
    /\ UNCHANGED <<prog, customers, parts, orders, orders_index, migVars, impVars, suppliers,
                   files, conv, fixVars, updVars, prev>>

\* the summary printed after the loop
LinkFinish ==
    /\ prog = "link"
    /\ link.pc = "loop"
    /\ link.idx > Len(link.todo)
    /\ link' = [link EXCEPT !.pc = "done", !.summary = TRUE]
    /\ UNCHANGED <<prog, customers, parts, orders, orders_index, migVars, impVars, convVars,
                   fixVars, updVars, prev>>

LinkNext == LinkStart \/ LinkIterate \/ LinkFinish

\* ------------------------------------------------------------------ inputs

Line(sono, custno, item, qtyord, qtyshp, price, ordate) ==
    [SONO |-> sono, CUSTNO |-> custno, ITEM |-> item, QTYORD |-> qtyord,
     QTYSHP |-> qtyshp, PRICE |-> price, ORDATE |-> ordate, SHIPDATE |-> ordate]

GoodDate == JStr(<<"2024", "-", "03", "-", "10">>)

Date(month, day) == JStr(<<"2024", "-", month, "-", day>>)

LineKinds == {
    [Line(JStr(<<"1">>), JStr(<<"A">>), JStr(<<"7">>), JNum(2000), JNum(0), JNum(5000), GoodDate)
        EXCEPT !.SHIPDATE = Date("03", "17")],
    Line(JStr(<<" ", "1">>), JStr(<<"X">>), JStr(<<"7">>), JNum(3000), JNum(0), JNum(19990), GoodDate),
    [Line(JStr(<<"2">>), JStr(<<"A", " ">>), JStr(<<"8">>), JNum(1000), JNum(1000), JNum(12500),
          Date("11", "03")) EXCEPT !.SHIPDATE = Date("11", "10")],
    Line(JStr(<<"2">>), JStr(<<"A">>), JStr(<<"9">>), JStr(<<"2">>), JNull, JStr(<<"x">>), JNull),
    Line(JNull, JStr(<<"A">>), JStr(<<"7">>), JNum(1000), JNum(0), JNum(2000), JStr(<<"2024", "-", "03">>)) }

SeqsUpTo(S, n) == UNION {[1..k -> S] : k \in 0..n}

InitCustomers == <<[customer_number |-> <<"A">>], [customer_number |-> <<"B">>]>>

Part(item) == [item_number |-> item, description |-> <<>>, quantity_on_hand |-> 0,
               default_price |-> 0, location |-> <<>>, notes |-> <<>>, updatedAt |-> "t0"]

InitParts == <<Part(<<"7">>), Part(<<"8">>)>>

InitOrderSets == {{}, {<<"1">>}}

Warning(item) == [k |-> "part", item |-> item]

\* a line naming a part the store holds, one the parts file defines, one it does not
\* define, and a line that is no part warning
WarningKinds == {Warning(<<"7">>), Warning(<<"9">>), Warning(<<"5">>), [k |-> "other"]}

Legacy(item, onhand, price) ==
    [ITEM |-> item, DESCRIP |-> JStr(<<"d">>), ONHAND |-> onhand, PRICE |-> price,
     SEQ |-> JNull, VPARTNO |-> JStr(<<" ", "v">>)]

InitPartsFile == <<Legacy(JStr(<<"9", " ">>), JNum(4000), JNum(12500)),
                   Legacy(JStr(<<"7">>), JNull, JStr(<<"x">>)),
                   Legacy(JStr(<<"9">>), JNum(1000), JNum(1990))>>

LegacySupplier(vendno, company, phone) ==
    [VENDNO |-> vendno, CONTACT |-> JStr(<<"n">>), PHONE |-> phone, COMPANY |-> company]

SupplierKinds == {LegacySupplier(JStr(<<"V">>), JStr(<<"c">>), JStr(<<"5">>)),
                  LegacySupplier(JStr(<<"V", " ">>), JNull, JNull),
                  LegacySupplier(JStr(<<"W">>), JStr(<<"c">>), JNull)}

LegacyCustomer(custno, company) ==
    [CUSTNO |-> custno, CONTACT |-> JNull, PHONE |-> JStr(<<"5">>), COMPANY |-> company]

CustomerKinds == {LegacyCustomer(JStr(<<"A">>), JStr(<<"c">>)),
                  LegacyCustomer(JStr(<<"B">>), JStr(<<"C">>))}

LegacyPart(item, supplier) ==
    [ITEM |-> item, DESCRIP |-> JStr(<<"d">>), SUPPLIER |-> supplier,
     ONHAND |-> JNum(2500), PRICE |-> JNum(12500)]

InitLoaderParts == <<LegacyPart(JStr(<<"7">>), JStr(<<"V">>)), LegacyPart(JStr(<<"8">>), JStr(<<"Z">>))>>

LegacyShipping(custno, street) ==
    [CUSTNO |-> custno, COMPANY |-> JStr(<<"c">>), ADDRESS1 |-> street,
     ADDRESS3 |-> JStr(<<"NEWTON">>)]

InitShipping == <<LegacyShipping(JStr(<<"A">>), JStr(<<"s">>)),
                  LegacyShipping(JStr(<<"Q">>), JStr(<<"s">>)),
                  LegacyShipping(JStr(<<"A", " ">>), JStr(<<"t">>))>>

Item(item) == [ITEM |-> item]

\* legacy items: 7.0 and "8.0" to rename (the second by a leading zero), "6.0" still
\* in the new file, 4.0 whose leading-zero form the new file holds only with ".0",
\* "3.0" with no match, "9" with no ".0"
OldKinds == {Item(JNum(7000)), Item(JStr(<<"8", ".", "0", " ">>)), Item(JStr(<<"6", ".", "0">>)),
             Item(JNum(4000)), Item(JStr(<<"3", ".", "0">>)), Item(JStr(<<"9">>))}

InitNewFile == <<Item(JStr(<<"7">>)), Item(JStr(<<"0", "8">>)), Item(JNum(6000)),
                 Item(JStr(<<"0", "4", ".", "0">>))>>

InitFixParts == <<Part(<<"7", ".", "0">>), Part(<<"8", ".", "0">>), Part(<<"6", ".", "0">>)>>

\* legacy parts for the updater: one with notes, one whose notes are blank, one the
\* store lacks, which has no notes, and one with notes and without VPARTNO
UpdateKinds == {Legacy(JStr(<<"7">>), JNum(4000), JNull),
                Legacy(JStr(<<"8", " ">>), JStr(<<"x">>), JNull),
                Legacy(JStr(<<"5">>), JNum(2500), JNull),
                [Legacy(JStr(<<"7">>), JNum(1000), JNull) EXCEPT !.VPARTNO = JNull]}

Note(item, line1, line2) ==
    [ITEM |-> item, LINE1 |-> line1, LINE2 |-> line2, LINE3 |-> JNull, LINE4 |-> JNull,
     LINE5 |-> JNull, LINE6 |-> JNull]

InitNotesFile == <<Note(JStr(<<"7">>), JStr(<<"a">>), JStr(<<" ", "b">>)),
                   Note(JStr(<<"8">>), JStr(<<" ">>), JNull)>>

NoMigrate == /\ sales_data = <<>>
             /\ mig = [p \in Procs |-> IdleRun]

NoImport == /\ warnings = <<>>
            /\ imp = [p \in Procs |-> IdleImport]

NoFiles == [suppliers |-> <<>>, customers |-> <<>>, parts |-> <<>>, shipping |-> <<>>,
            malformed |-> "none"]

NoLoad == /\ suppliers = <<>>
          /\ contacts = <<>>
          /\ files = NoFiles
          /\ conv = IdleLoad

NoFix == /\ old_file = <<>>
         /\ new_file = <<>>
         /\ fix = IdleFix

NoUpdate == /\ notes_file = <<>>
            /\ upd = IdleUpdate

NoLink == link = IdleLink

Contact(company, company_id, company_type) ==
    [company |-> company, company_id |-> company_id, company_type |-> company_type,
     updatedAt |-> "t0"]

\* the store holds a customer "C" and suppliers "c" and "D": "c" names both, "d" a
\* supplier only. Contacts of a company that names a customer and a supplier (in two
\* spellings), of one that names a supplier only, of an unknown one, of none, and a
\* contact that is linked already; 0 and "none" stand for an absent company_id and
\* company_type
ContactKinds == {Contact(JStr(<<"c">>), 0, "none"), Contact(JStr(<<"C", " ">>), 0, "none"),
                 Contact(JStr(<<"d">>), 0, "none"), Contact(JStr(<<"e">>), 0, "none"),
                 Contact(JNull, 0, "none"), Contact(JStr(<<"c">>), 2, "supplier")}

InitStore ==
    /\ customers = InitCustomers
    /\ NoLink
    /\ orders_index = FALSE
    /\ parts_index = FALSE
    /\ prev = [p \in Procs |-> [pc |-> "none"]]

InitMigrate(lines) ==
    /\ prog = "migrate"
    /\ \/ sales_data \in SeqsUpTo(lines, MaxLines) /\ files = NoFiles
       \/ sales_data = <<>> /\ files = [NoFiles EXCEPT !.malformed = "sales"]
    /\ mig = [p \in Procs |-> IdleRun]
    /\ \E K \in InitOrderSets : orders = [k \in K |-> 1]
    /\ parts = InitParts
    /\ parts_file = <<>>
    /\ suppliers = <<>> /\ contacts = <<>> /\ conv = IdleLoad
    /\ InitStore /\ NoImport /\ NoFix /\ NoUpdate

InitImport ==
    /\ prog = "import"
    /\ warnings \in SeqsUpTo(WarningKinds, MaxLines)
    /\ parts_file = InitPartsFile
    /\ imp = [p \in Procs |-> IdleImport]
    /\ orders = <<>>
    /\ parts = InitParts
    /\ InitStore /\ NoMigrate /\ NoLoad /\ NoFix /\ NoUpdate

\* the loader starts on an empty database; a file that is not JSON has no records
InitLoad ==
    /\ prog = "convert"
    /\ \E sup \in SeqsUpTo(SupplierKinds, MaxFile), cust \in SeqsUpTo(CustomerKinds, MaxFile),
          bad \in {"none", "suppliers", "customers", "parts", "shipping"} :
          files = [suppliers |-> IF bad = "suppliers" THEN <<>> ELSE sup,
                   customers |-> IF bad = "customers" THEN <<>> ELSE cust,
                   parts     |-> IF bad = "parts" THEN <<>> ELSE InitLoaderParts,
                   shipping  |-> IF bad = "shipping" THEN <<>> ELSE InitShipping,
                   malformed |-> bad]
    /\ suppliers = <<>> /\ contacts = <<>> /\ customers = <<>> /\ parts = <<>>
    /\ orders = <<>> /\ orders_index = FALSE /\ parts_index = FALSE
    /\ conv = IdleLoad
    /\ parts_file = <<>>
    /\ prev = [p \in Procs |-> [pc |-> "none"]]
    /\ NoMigrate /\ NoImport /\ NoFix /\ NoUpdate /\ NoLink

InitFix ==
    /\ prog = "fix"
    /\ old_file \in SeqsUpTo(OldKinds, MaxLines)
    /\ new_file = InitNewFile
    /\ fix = IdleFix
    /\ orders = <<>>
    /\ parts = InitFixParts
    /\ parts_file = <<>>
    /\ InitStore /\ NoMigrate /\ NoImport /\ NoLoad /\ NoUpdate

InitUpdate ==
    /\ prog = "update"
    /\ parts_file \in SeqsUpTo(UpdateKinds, MaxLines)
    /\ notes_file = InitNotesFile
    /\ upd = IdleUpdate
    /\ orders = <<>>
    /\ parts = InitParts
    /\ InitStore /\ NoMigrate /\ NoImport /\ NoLoad /\ NoFix

InitLink ==
    /\ prog = "link"
    /\ contacts \in SeqsUpTo(ContactKinds, MaxFile)
    /\ customers = <<[company_name |-> <<"C">>]>>
    /\ suppliers = <<[company_name |-> <<"c">>], [company_name |-> <<"D">>]>>
    /\ files = NoFiles /\ conv = IdleLoad
    /\ parts = <<>> /\ orders = <<>> /\ orders_index = FALSE /\ parts_index = FALSE
    /\ parts_file = <<>>
    /\ link = IdleLink
    /\ prev = [p \in Procs |-> [pc |-> "none"]]
    /\ NoMigrate /\ NoImport /\ NoFix /\ NoUpdate

Init == InitMigrate(LineKinds) \/ InitImport \/ InitLoad \/ InitFix \/ InitUpdate \/ InitLink

\* one process runs one of the scripts, again and again
Next == (\E p \in {1} : MigNext(p) \/ ImpNext(p)) \/ ConvNext \/ FixNext \/ UpdNext \/ LinkNext

Spec == Init /\ [][Next]_vars

\* the sales lines whose own customer, part and dates are all good
CleanLines == {l \in LineKinds :
                 /\ FindOne(InitCustomers, "customer_number", safe_str(l.CUSTNO)) # 0
                 /\ FindOne(InitParts, "item_number", safe_str(l.ITEM)) # 0
                 /\ DateError(l) = "none"}

InitConc == InitMigrate(CleanLines) \/ InitImport

\* two processes run the same script at the same time, each step one call on the store
NextConc ==
    \E p \in Procs :
        \/ MigStart(p) \/ MigIterate(p) \/ MigFinal(p)
        \/ ImpStart(p) \/ ImpProbe(p) \/ ImpInsert(p) \/ ImpDone(p)

SpecConc == InitConc /\ [][NextConc]_vars

\* ------------------------------------------------------------------ claims

\* the order numbers a run has staged so far: the aggregates already passed whose
\* pass appended an InsertOne
StagedKeys(r) ==
    {r.orders_map[i].sono : i \in {j \in 1..Len(r.orders_map) :
        j < r.idx /\ Decide(r.orders_map[j], customers, parts).k = "stage"}}

TotalDocs(os) == LET RECURSIVE Sum(_)
                     Sum(K) == IF K = {} THEN 0
                               ELSE LET k == CHOOSE x \in K : TRUE
                                    IN  os[k] + Sum(K \ {k})
                 IN  Sum(DOMAIN os)

\* the run of p ended by itself (it was not stopped from outside)
RanToItsEnd(p) == mig[p].pc \in {"done", "aborted"}

\* p's run is the real run that follows a completed real run of the same input,
\* on the store that run left
SecondRealRun(p) ==
    /\ prog = "migrate"
    /\ prev[p].pc = "done" /\ ~prev[p].dry_run
    /\ ~mig[p].dry_run
    /\ mig[p].orders0 = prev[p].orders1

\* C1: a second real run of migrate_sales_orders with the same input, on the store a
\* completed first run left, adds no order document and decides every candidate as
\* existing (a counted skip), none as inserted.
C1_SecondRunSkipsAll ==
    \A p \in Procs :
        (SecondRealRun(p) /\ RanToItsEnd(p)) =>
            /\ orders = mig[p].orders0
            /\ mig[p].pc = "done"
            /\ mig[p].out.inserted = 0
            /\ mig[p].out.skips = Cardinality(StagedKeys(mig[p]))

\* C2: a duplicate key in any flushed batch, mid-run or final, does not abort the
\* run: the run goes on to its end and every conflict is counted as a skip.
C2_DuplicatesTolerated ==
    \A p \in Procs :
        (/\ prog = "migrate" /\ ~mig[p].dry_run /\ RanToItsEnd(p)
         /\ mig[p].err \in {"none", "BulkWriteError"}) =>
            /\ mig[p].pc = "done"
            /\ mig[p].out.skips = Cardinality(StagedKeys(mig[p]) \cap DOMAIN mig[p].orders0)

\* C4: at the end of a run every candidate is counted in exactly one reported
\* counter: the importer's Inserted + Skipped is the number of distinct missing part
\* numbers, and the migrator's committed and skipped orders add up to the number of
\* aggregates considered.
C4_CountersBalance ==
    \A p \in Procs :
        /\ (prog = "import" /\ imp[p].pc = "done") =>
              imp[p].inserted + imp[p].skipped = Cardinality(imp[p].missing_parts)
        /\ (prog = "migrate" /\ mig[p].pc = "done") =>
              (IF mig[p].dry_run THEN mig[p].out.would_insert
               ELSE TotalDocs(orders) - TotalDocs(mig[p].orders0) + mig[p].out.skips)
                 = Len(mig[p].orders_map)

\* every aggregate of the input is free of date errors
CleanDates == \A i \in 1..Len(sales_data) : DateError(sales_data[i]) = "none"

\* C3: after a real run was interrupted with some batch already flushed, a rerun with the same input, whatever its
\* batch_size, leaves every aggregate whose customer and at least one part resolve
\* in the orders collection exactly once.
C3_RerunConverges ==
    \A p \in Procs :
        (/\ prog = "migrate" /\ prev[p].pc = "killed" /\ CleanDates
         /\ prev[p].orders1 # prev[p].orders0
         /\ ~mig[p].dry_run /\ RanToItsEnd(p)
         /\ mig[p].orders0 = prev[p].orders1) =>
            \A i \in 1..Len(mig[p].orders_map) :
                Decide(mig[p].orders_map[i], customers, parts).k = "stage" =>
                    OrderCount(orders, mig[p].orders_map[i].sono) = 1

\* the target store: every collection and index the scripts write
Store == <<customers, parts, orders, orders_index, parts_index, suppliers, contacts>>

\* the step is taken by a run in dry-run mode of the migrator, the importer, the
\* item-number fixer or the parts updater
DryRunStep ==
    \/ \E p \in Procs : mig'[p] # mig[p] /\ mig'[p].dry_run
    \/ \E p \in Procs : imp'[p] # imp[p] /\ imp'[p].dry_run
    \/ fix' # fix /\ fix'.dry_run
    \/ upd' # upd /\ upd'.dry_run

\* C5: no step of a dry run of the sales-order migrator, the item-number fixer, the
\* parts updater or the missing-parts importer writes to the target store (no index
\* is created, no document inserted or updated), whatever the input and batch_size:
\* the store after the dry run is the store before it.
C5_DryRunWritesNothing == [][DryRunStep => UNCHANGED Store]_vars

\* a completed dry run of the migrator whose staged orders all went through mid-run
\* flushes, on a store without the index
C5_Witness ==
    /\ prog = "migrate"
    /\ \E p \in Procs :
          /\ mig[p].pc = "done" /\ mig[p].dry_run
          /\ mig[p].batch_size = 1 /\ mig[p].out.would_insert = 2
          /\ prev[p].pc = "none"
          /\ ~orders_index

\* C6: a dry run and the real run of the same input on the same store report the
\* same counts: the real run stages what the dry run staged, inserts what the dry
\* run said it would insert and skips nothing the dry run did not skip, also when
\* the store holds some of the order numbers; the importer's Inserted and Skipped
\* are the same in both modes.
C6_DryRunCountsEqualReal ==
    \A p \in Procs :
        /\ (/\ prog = "migrate" /\ prev[p].pc = "done" /\ prev[p].dry_run
            /\ ~mig[p].dry_run /\ mig[p].pc = "done"
            /\ mig[p].orders0 = prev[p].orders0) =>
               /\ mig[p].processed = prev[p].processed
               /\ TotalDocs(orders) - TotalDocs(mig[p].orders0) = prev[p].out.would_insert
               /\ mig[p].out.skips = 0
        /\ (/\ prog = "import" /\ prev[p].pc = "done" /\ prev[p].dry_run
            /\ ~imp[p].dry_run /\ imp[p].pc = "done"
            /\ imp[p].parts0 = prev[p].parts0) =>
               /\ imp[p].inserted = prev[p].inserted
               /\ imp[p].skipped = prev[p].skipped

\* C7: whatever the interleaving of real (and dry) runs of the migrator, the orders
\* collection holds at most one document per order_number.
C7_OneDocumentPerOrderNumber == \A k \in DOMAIN orders : orders[k] <= 1

\* two real runs raced on the same order number and one of them was refused
C7_Witness ==
    /\ prog = "migrate"
    /\ \A p \in Procs : mig[p].pc \in {"done", "aborted"} /\ ~mig[p].dry_run
    /\ \E p \in Procs : mig[p].out.skips > 0 \/ mig[p].err = "BulkWriteError"
    /\ \E p \in Procs : mig[p].out.inserted > 0
    /\ \E k \in DOMAIN orders : k \notin DOMAIN mig[1].orders0 /\ orders[k] = 1

\* C8: after any interleaving of two real runs of the importer over the same files,
\* the parts collection holds at most one document per item_number.
C8_OnePartPerItemNumber ==
    \A i, j \in 1..Len(parts) : parts[i].item_number = parts[j].item_number => i = j

\* how many documents of a collection carry value v in a field
CountOf(coll, field, v) == Cardinality({i \in 1..Len(coll) : coll[i][field] = v})

\* C9: a second run of the loader on the store its first run left, with the same
\* files, duplicates nothing: every vendor_number, customer_number and item_number
\* occurs in no more documents than after the first run, and no customer document
\* has a shipping address appended again.
C9_RerunDuplicatesNothing ==
    (prog = "convert" /\ conv.pc = "done" /\ prev[1].pc = "done") =>
        /\ \A i \in 1..Len(suppliers) :
              CountOf(suppliers, "vendor_number", suppliers[i].vendor_number)
                 <= CountOf(prev[1].suppliers1, "vendor_number", suppliers[i].vendor_number)
        /\ \A i \in 1..Len(customers) :
              CountOf(customers, "customer_number", customers[i].customer_number)
                 <= CountOf(prev[1].customers1, "customer_number", customers[i].customer_number)
        /\ \A i \in 1..Len(parts) :
              CountOf(parts, "item_number", parts[i].item_number)
                 <= CountOf(prev[1].parts1, "item_number", parts[i].item_number)
        /\ \A i \in 1..Len(prev[1].customers1) :
              customers[i].shipping_addresses = prev[1].customers1[i].shipping_addresses

\* the first line, in file order, of the aggregate keyed k
FirstLineOf(k) ==
    sales_data[CHOOSE i \in 1..Len(sales_data) :
                  /\ Strip(IF sales_data[i].SONO.t = "null" THEN <<>> ELSE sales_data[i].SONO.s) = k
                  /\ \A j \in 1..(i - 1) :
                        Strip(IF sales_data[j].SONO.t = "null" THEN <<>> ELSE sales_data[j].SONO.s) # k]

\* the customer document, if any, whose customer_number is the trimmed CUSTNO of line l
ResolvesCustomer(l) ==
    \E i \in 1..Len(customers) :
        customers[i].customer_number = Strip(IF l.CUSTNO.t = "null" THEN <<>> ELSE l.CUSTNO.s)

\* C10: an aggregate whose first line (in file order) carries a customer code that
\* does not resolve is skipped whole: it is never staged and the run commits no order
\* for it, whatever its lines' parts; a staged order's customer is the one of its
\* aggregate's first line.
C10_MissingCounterparty ==
    \A p \in Procs : prog = "migrate" /\ mig[p].pc # "idle" =>
        /\ \A i \in 1..Len(mig[p].bulk_ops) :
              LET op == mig[p].bulk_ops[i]
              IN  /\ ResolvesCustomer(FirstLineOf(op.order_number))
                  /\ customers[op.customer].customer_number =
                        Strip(FirstLineOf(op.order_number).CUSTNO.s)
        /\ \A i \in 1..Len(mig[p].orders_map) :
              LET g == mig[p].orders_map[i]
              IN  ~ResolvesCustomer(FirstLineOf(g.sono)) =>
                     /\ \A j \in 1..Len(mig[p].bulk_ops) : mig[p].bulk_ops[j].order_number # g.sono
                     /\ OrderCount(orders, g.sono) = OrderCount(mig[p].orders0, g.sono)

\* a run is over that passed an aggregate whose first line's customer is unknown
\* while a later line's is known and every line's part resolves
C10_Witness ==
    /\ prog = "migrate"
    /\ mig[1].pc = "done"
    /\ \E i \in 1..Len(mig[1].orders_map) :
          LET g == mig[1].orders_map[i]
          IN  /\ Len(g.lines) > 1
              /\ ~ResolvesCustomer(g.lines[1])
              /\ ResolvesCustomer(g.lines[2])
              /\ \A j \in 1..Len(g.lines) :
                    FindOne(parts, "item_number", safe_str(g.lines[j].ITEM)) # 0
    /\ mig[1].processed > 0

\* the records of the sales file whose trimmed SONO is k, in file order
LinesOf(k) == SelectSeq(sales_data, LAMBDA l : safe_str(l.SONO) = k)

\* the part collection holds a part whose item_number is the trimmed ITEM of line l
Resolvable(l) == \E i \in 1..Len(parts) : parts[i].item_number = safe_str(l.ITEM)

\* the records of aggregate k whose part resolves, in file order
ResolvableLines(k) == SelectSeq(LinesOf(k), Resolvable)

\* C11: every order document a run has staged has a non-empty parts list with one
\* line item per record of its aggregate whose part resolves, each carrying the id of
\* that part; records whose part does not resolve are left out, and an aggregate with
\* no resolvable record is neither staged nor committed.
C11_StagedPartsResolved ==
    \A p \in Procs : prog = "migrate" =>
        /\ \A i \in 1..Len(mig[p].bulk_ops) :
              LET op == mig[p].bulk_ops[i]
                  rl == ResolvableLines(op.order_number)
              IN  /\ op.parts # <<>>
                  /\ Len(op.parts) = Len(rl)
                  /\ \A j \in 1..Len(op.parts) :
                        /\ op.parts[j].part_id \in 1..Len(parts)
                        /\ parts[op.parts[j].part_id].item_number = safe_str(rl[j].ITEM)
        /\ \A i \in 1..Len(mig[p].orders_map) :
              LET g == mig[p].orders_map[i]
              IN  ResolvableLines(g.sono) = <<>> =>
                     /\ \A j \in 1..Len(mig[p].bulk_ops) : mig[p].bulk_ops[j].order_number # g.sono
                     /\ OrderCount(orders, g.sono) = OrderCount(mig[p].orders0, g.sono)

\* a staged order whose aggregate has a record with an unknown part: the document
\* has fewer line items than the aggregate has records
C11_Witness ==
    /\ prog = "migrate"
    /\ \E i \in 1..Len(mig[1].bulk_ops) :
          LET op == mig[1].bulk_ops[i]
          IN  /\ Len(op.parts) >= 1
              /\ Len(op.parts) < Len(LinesOf(op.order_number))
              /\ \E j \in 1..Len(LinesOf(op.order_number)) : ~Resolvable(LinesOf(op.order_number)[j])

\* the quantity a sales line states: its ordered quantity
StatedQuantity(l) == safe_convert_float(l.QTYORD, 0)

\* the sum over the records of stated quantity times the line item's minor-unit price
RECURSIVE StatedTotal(_, _)
StatedTotal(ls, items) ==
    IF ls = <<>> THEN 0
    ELSE StatedQuantity(Head(ls)) * Head(items).price + StatedTotal(Tail(ls), Tail(items))

\* C12: the records of one order number, all with resolvable parts and a resolvable
\* customer, give exactly one order document with one line item per record, whose
\* total_price is the sum over the line items of the line's stated quantity times
\* its minor-unit price.
C12_AggregateTotal ==
    \A p \in Procs : prog = "migrate" =>
        \A i \in 1..Len(mig[p].bulk_ops) :
            LET op == mig[p].bulk_ops[i]
                ls == LinesOf(op.order_number)
            IN  (\A j \in 1..Len(ls) : Resolvable(ls[j])) =>
                   /\ \A h \in 1..Len(mig[p].bulk_ops) :
                         mig[p].bulk_ops[h].order_number = op.order_number => h = i
                   /\ Len(op.parts) = Len(ls)
                   /\ op.total_price = StatedTotal(ls, op.parts)

\* the grouping key of a record: its SONO as a trimmed string, empty when missing
RecordKey(l) == IF l.SONO.t = "null" THEN <<>> ELSE Strip(PyStr(l.SONO))

\* the position in the file of the first record with key k
FirstSeen(k) ==
    CHOOSE i \in 1..Len(sales_data) :
        /\ RecordKey(sales_data[i]) = k
        /\ \A j \in 1..(i - 1) : RecordKey(sales_data[j]) # k

\* C13: grouping loses nothing: every record is in exactly one group, the group of
\* its trimmed key (the empty string for a missing or empty key); a group holds its
\* records in file order; the groups come in the order their keys are first seen.
C13_GroupingLosesNothing ==
    \A p \in Procs : (prog = "migrate" /\ mig[p].pc \in {"loop", "done", "aborted", "killed"}) =>
        LET m == mig[p].orders_map
        IN  /\ \A i \in 1..Len(sales_data) :
                  Cardinality({g \in 1..Len(m) : m[g].sono = RecordKey(sales_data[i])}) = 1
            /\ \A g \in 1..Len(m) :
                  /\ m[g].lines # <<>>
                  /\ m[g].lines = SelectSeq(sales_data, LAMBDA l : RecordKey(l) = m[g].sono)
            /\ \A g, h \in 1..Len(m) : g < h => FirstSeen(m[g].sono) < FirstSeen(m[h].sono)

\* a file of three records grouped: the first and third differ but share a key, the
\* second has no key
C13_Witness ==
    /\ prog = "migrate"
    /\ mig[1].pc = "loop"
    /\ Len(sales_data) = 3
    /\ RecordKey(sales_data[1]) = RecordKey(sales_data[3])
    /\ sales_data[1] # sales_data[3]
    /\ RecordKey(sales_data[2]) = <<>>
    /\ RecordKey(sales_data[1]) # <<>>
    /\ Len(mig[1].orders_map) = 2

\* the item numbers of the new file, as written there
NewSet == {Strip(PyStr(new_file[i].ITEM)) : i \in 1..Len(new_file)}

\* the legacy item number of the j-th record of the old file
RawOld(j) == Strip(PyStr(old_file[j].ITEM))

\* the resolution of a legacy item number ending in ".0": "same" when the ".0" form
\* is in the new set, else the stripped form if present, else the stripped form
\* with one leading zero if present, else "none"
Resolution(raw) ==
    LET stripped == SubSeq(raw, 1, Len(raw) - 2)
    IN  IF raw \in NewSet THEN [k |-> "same"]
        ELSE IF stripped \in NewSet THEN [k |-> "to", new_item |-> stripped]
        ELSE IF (<<"0">> \o stripped) \in NewSet THEN [k |-> "to", new_item |-> <<"0">> \o stripped]
        ELSE [k |-> "none"]

\* the renames, the up-to-date skips and the unresolved skips the first n records call for
RECURSIVE Renames(_)
Renames(n) ==
    IF n = 0 THEN <<>>
    ELSE IF EndsWithDotZero(RawOld(n)) /\ Resolution(RawOld(n)).k = "to"
         THEN Append(Renames(n - 1), <<RawOld(n), Resolution(RawOld(n)).new_item>>)
         ELSE Renames(n - 1)

RECURSIVE Outcomes(_, _)
Outcomes(n, k) ==
    IF n = 0 THEN <<>>
    ELSE IF EndsWithDotZero(RawOld(n)) /\ Resolution(RawOld(n)).k = k
         THEN Append(Outcomes(n - 1, k), RawOld(n))
         ELSE Outcomes(n - 1, k)

\* C14: for every legacy ITEM ending in ".0" the fixer has passed: it is skipped as
\* up to date if the ".0" form is in the new set; else renamed to the stripped form if
\* that is in the new set; else to the stripped form with one leading zero if that is
\* in the new set; else it is unresolved and no rename is scheduled.
C14_SuffixFallback ==
    (prog = "fix" /\ fix.pc \in {"loop", "done"}) =>
        /\ fix.applied = Renames(fix.idx - 1)
        /\ fix.skipped_up_to_date = Outcomes(fix.idx - 1, "same")
        /\ fix.skipped_no_match = Outcomes(fix.idx - 1, "none")

\* the aggregates of a run whose first record's customer resolves and which have a
\* record whose part resolves
ValidAggregates(r) ==
    {i \in 1..Len(r.orders_map) :
        /\ ResolvesCustomer(FirstLineOf(r.orders_map[i].sono))
        /\ ResolvableLines(r.orders_map[i].sono) # <<>>}

\* C15: a missing or malformed ORDATE or SHIPDATE on the first line of an otherwise
\* valid aggregate never aborts the run: no run ends on the exception of the date
\* handling, and a run that reaches its end has staged every valid aggregate.
C15_DatesNeverAbort ==
    \A p \in Procs : prog = "migrate" =>
        /\ mig[p].err \notin {"AttributeError", "ValueError"}
        /\ mig[p].pc = "done" => mig[p].processed = Cardinality(ValidAggregates(mig[p]))

\* C17: every run of the migrator that runs to completion, dry or real, with or
\* without a final batch, with or without duplicate keys in the final flush, has
\* emitted the "Processed N orders total" summary.
C17_SummaryAlways ==
    \A p \in Procs : (prog = "migrate" /\ mig[p].pc = "done") => mig[p].out.summary

\* C16: a real run of the migrator that reached the store and loaded its sales file
\* calls create_index on orders.order_number exactly once, and every bulk write of
\* the run is issued with the call made and the unique index in place; a run started
\* when the index already exists is not failed by the call.
C16_IndexOnceBeforeWrites ==
    [][\A p \in Procs :
          (/\ prog = "migrate" /\ mig'[p] # mig[p] /\ ~mig'[p].dry_run
           /\ mig'[p].pc # "unreachable" /\ mig'[p].err # "JSONDecodeError") =>
             /\ mig'[p].index_calls = 1
             /\ (mig[p].pc = "loop" /\ mig'[p].out.announced > mig[p].out.announced) =>
                   (orders_index /\ mig[p].index_calls = 1)
             /\ (mig[p].pc # "loop" /\ orders_index) => mig'[p].pc = "loop"]_vars

\* a real run started on a store that already had the index, from an earlier real run,
\* has issued a bulk write
C16_Witness ==
    /\ prog = "migrate"
    /\ prev[1].pc = "done" /\ ~prev[1].dry_run /\ prev[1].orders1 # prev[1].orders0
    /\ ~mig[1].dry_run /\ mig[1].pc = "done"
    /\ mig[1].index_calls = 1
    /\ mig[1].out.announced > 0
    /\ orders_index

\* C18: every skip of the migrator is logged with its key and reason: for each
\* aggregate passed whose customer does not resolve the log has a line naming its
\* order number, and for each record skipped because its part does not resolve the
\* log has a line naming its item number.
C18_SkipsLogged ==
    \A p \in Procs : (prog = "migrate" /\ mig[p].pc \in {"loop", "done"}) =>
        \A j \in 1..(mig[p].idx - 1) :
            LET g == mig[p].orders_map[j]
            IN  IF ~ResolvesCustomer(g.lines[1])
                THEN [about |-> "customer", key |-> g.sono] \in mig[p].out.log
                ELSE \A i \in 1..Len(g.lines) :
                        ~Resolvable(g.lines[i]) =>
                            [about |-> "part", key |-> safe_str(g.lines[i].ITEM)] \in mig[p].out.log

\* C19: a run that aborts because an input file cannot be parsed as JSON leaves the
\* target store as it was: the first run of the loader on the empty database leaves
\* it empty, and the migrator leaves the orders and their index as it found them.
C19_MalformedInputWritesNothing ==
    /\ (prog = "convert" /\ conv.err = "JSONDecodeError" /\ prev[1].pc = "none") =>
          /\ suppliers = <<>> /\ contacts = <<>>
          /\ customers = <<>> /\ parts = <<>>
    /\ \A p \in Procs :
          (prog = "migrate" /\ mig[p].err = "JSONDecodeError") =>
             /\ orders = mig[p].orders0
             /\ prev[p].pc = "none" => ~orders_index

\* C20: a run whose ping fails exits with a non-zero status with no work done (no
\* candidate processed, nothing written, no index created), and a run that completes,
\* also with unresolved or skipped records, exits with status 0, in the migrator, the
\* importer, the item-number fixer and the parts updater.
C20_ExitStatus ==
    /\ \A p \in Procs : prog = "migrate" =>
          /\ mig[p].pc = "unreachable" =>
                /\ MigExit(mig[p]) \notin {0, -1}
                /\ orders = mig[p].orders0
                /\ mig[p].orders_map = <<>> /\ mig[p].processed = 0 /\ mig[p].index_calls = 0
          /\ mig[p].pc = "done" => MigExit(mig[p]) = 0
    /\ \A p \in Procs : prog = "import" =>
          /\ imp[p].pc = "unreachable" =>
                /\ ImpExit(imp[p]) \notin {0, -1}
                /\ parts = imp[p].parts0
                /\ imp[p].inserted = 0 /\ imp[p].skipped = 0
          /\ imp[p].pc = "done" => ImpExit(imp[p]) = 0
    /\ prog = "fix" =>
          /\ fix.pc = "unreachable" =>
                /\ FixExit(fix) \notin {0, -1}
                /\ parts = InitFixParts /\ fix.idx = 1 /\ fix.applied = <<>>
          /\ fix.pc = "done" => FixExit(fix) = 0
    /\ prog = "update" =>
          /\ upd.pc = "unreachable" =>
                /\ UpdExit(upd) \notin {0, -1}
                /\ parts = InitParts /\ ~parts_index /\ upd.processed_count = 0
          /\ upd.pc = "done" => UpdExit(upd) = 0

\* a real run of the migrator that completed with some aggregates unresolved and
\* some committed
C20_Witness ==
    /\ prog = "migrate"
    /\ mig[1].pc = "done" /\ ~mig[1].dry_run
    /\ Cardinality(ValidAggregates(mig[1])) < Len(mig[1].orders_map)
    /\ mig[1].processed > 0
    /\ MigExit(mig[1]) = 0
    /\ prev[1].pc = "none"

\* the minor-unit amount of a price in major units: the price times 100, truncated
\* toward zero; 0 for a price that is missing or is no number
MinorUnits(value) == PyInt(100 * safe_convert_float(value, 0))

\* C21: the price of every line item of a staged order is the source price of its
\* record multiplied by 100 and truncated toward zero (12.5 gives 1250), and 0 when
\* the record's price is missing or is no number.
C21_CurrencyTransformation ==
    \A p \in Procs : prog = "migrate" =>
        \A i \in 1..Len(mig[p].bulk_ops) :
            LET op == mig[p].bulk_ops[i]
                rl == ResolvableLines(op.order_number)
            IN  \A j \in 1..Len(op.parts) :
                    j <= Len(rl) => op.parts[j].price = MinorUnits(rl[j].PRICE)

\* the zone's offset from UTC at an instant, in hours: daylight time from 07:00 UTC of
\* the start day to 06:00 UTC of the end day
InstantOffset(h) ==
    IF h >= (DstStartDay - 1) * 24 + 7 /\ h < (DstEndDay - 1) * 24 + 6 THEN -4 ELSE -5

\* the calendar day of an instant rendered in America/New_York
EasternDay(h) == ((h + InstantOffset(h)) \div 24) + 1

\* C22: the order date and the shipping date of every staged order, rendered back in
\* America/New_York, fall on the calendar day of the source date, on days of standard
\* time, of daylight time and on the two days the clocks change.
C22_DateAnchoring ==
    \A p \in Procs : prog = "migrate" =>
        \A i \in 1..Len(mig[p].bulk_ops) :
            LET op == mig[p].bulk_ops[i]
                l  == LinesOf(op.order_number)[1]
            IN  /\ EasternDay(op.date) = ParseDay(Strip(l.ORDATE.s))
                /\ EasternDay(op.shipping_date) = ParseDay(Strip(l.SHIPDATE.s))

\* two orders are staged: one dated the day daylight time starts and shipped a week
\* later, in daylight time, one dated the day it ends and shipped a week later, in
\* standard time; the two offsets from UTC are both in use
C22_Witness ==
    /\ prog = "migrate"
    /\ Len(mig[1].bulk_ops) = 2
    /\ \E i, j \in 1..2 :
          /\ ParseDay(Strip(LinesOf(mig[1].bulk_ops[i].order_number)[1].ORDATE.s)) = DstStartDay
          /\ mig[1].bulk_ops[i].shipping_date % 24 = 16
          /\ ParseDay(Strip(LinesOf(mig[1].bulk_ops[j].order_number)[1].ORDATE.s)) = DstEndDay
          /\ mig[1].bulk_ops[j].date % 24 = 17
          /\ mig[1].bulk_ops[j].shipping_date % 24 = 17
          /\ mig[1].bulk_ops[i].date % 24 = 16

\* two characters are the same letter, in whatever case
SameLetter(a, b) == a = b \/ {a, b} \in {{"a", "A"}, {"c", "C"}, {"d", "D"}}

\* two names are equal as wholes, letter case apart
SameName(a, b) == Len(a) = Len(b) /\ \A i \in 1..Len(a) : SameLetter(a[i], b[i])

\* the positions of the documents of a collection whose company_name is the name
Named(coll, name) == {i \in 1..Len(coll) : SameName(coll[i].company_name, name)}

\* the contacts a run has passed that went through resolution: they carry a company
\* name and were not linked when the run read them
Resolved(r) ==
    {i \in 1..(r.idx - 1) :
        /\ safe_str(r.todo[i].company) # <<>>
        /\ ~(r.todo[i].company_id # 0 /\ r.todo[i].company_type # "none")}

\* C23: resolution in the contact updater tries the customers, then the suppliers,
\* and stops at the first hit: a contact whose company name is that of a customer
\* (letter case apart, as a whole) is linked to a customer of that name with
\* company_type "customer", also when a supplier has the name; one whose name is that
\* of a supplier only is linked to that supplier; one whose name is nobody's is left
\* as it was and counted as not found. A dry run decides the same and links nothing.
C23_CustomerBeforeSupplier ==
    (prog = "link" /\ link.pc \in {"loop", "done"}) =>
        /\ \A i \in Resolved(link) :
              LET name == safe_str(link.todo[i].company)
                  d    == link.decided[i]
                  want == IF Named(customers, name) # {} THEN "customer"
                          ELSE IF Named(suppliers, name) # {} THEN "supplier" ELSE "none"
                  coll == IF want = "customer" THEN customers ELSE suppliers
              IN  IF want = "none"
                  THEN d.k = "not_found" /\ contacts[i] = link.todo[i]
                  ELSE /\ d.k = "update"
                       /\ d.set.company_type = want
                       /\ d.set.company_id \in Named(coll, name)
                       /\ IF link.dry_run THEN contacts[i] = link.todo[i]
                          ELSE /\ contacts[i].company_type = want
                               /\ contacts[i].company_id = d.set.company_id
                               /\ contacts[i].company = link.todo[i].company
        /\ link.not_found =
              Cardinality({i \in Resolved(link) :
                              /\ Named(customers, safe_str(link.todo[i].company)) = {}
                              /\ Named(suppliers, safe_str(link.todo[i].company)) = {}})

\* a real run is over that linked a contact whose company names a customer and, in
\* another spelling, a supplier, to the customer, and a contact whose company names a
\* supplier only to that supplier
C23_Witness ==
    /\ prog = "link" /\ link.pc = "done" /\ ~link.dry_run
    /\ Len(link.todo) = 2
    /\ link.todo[1].company = JStr(<<"C", " ">>) /\ link.todo[1].company_id = 0
    /\ Named(suppliers, <<"C">>) # {}
    /\ contacts[1].company_type = "customer" /\ contacts[1].company_id = 1
    /\ link.todo[2].company = JStr(<<"d">>)
    /\ contacts[2].company_type = "supplier" /\ contacts[2].company_id = 2
    /\ link.updated = 2

\* C24: the parts updater changes nothing of a part but quantity_on_hand and notes:
\* every part document the store held keeps every other field, and the store holds
\* no part document it did not hold before the run.
C24_OnlyQuantityAndNotes ==
    prog = "update" =>
        /\ Len(parts) = Len(InitParts)
        /\ \A i \in 1..Len(InitParts) :
              \A f \in DOMAIN InitParts[i] \ {"quantity_on_hand", "notes"} :
                  parts[i][f] = InitParts[i][f]

\* the trimmed text of a field; empty for a missing one
Field(value) == IF value.t = "null" THEN <<>> ELSE Strip(PyStr(value))

\* the six sub-fields of a notes record, each on a line of its own
SixLines(note) ==
    Field(note.LINE1) \o <<"\n">> \o Field(note.LINE2) \o <<"\n">> \o Field(note.LINE3) \o <<"\n">>
        \o Field(note.LINE4) \o <<"\n">> \o Field(note.LINE5) \o <<"\n">> \o Field(note.LINE6)

\* the six sub-fields of a notes record are all blank
AllBlank(note) ==
    \A f \in {"LINE1", "LINE2", "LINE3", "LINE4", "LINE5", "LINE6"} : Field(note[f]) = <<>>

\* the notes entries of a part record: the positions of the notes records with its key
Entries(part) == {i \in 1..Len(notes_file) : Field(notes_file[i].ITEM) = Field(part.ITEM)}

\* the note of a part record, from the records alone
ComposedNote(part) ==
    IF Entries(part) = {} THEN Field(part.VPARTNO)
    ELSE LET note == notes_file[CHOOSE i \in Entries(part) : \A j \in Entries(part) : j <= i]
         IN  IF AllBlank(note) THEN Field(part.VPARTNO)
             ELSE IF Field(part.VPARTNO) = <<>> THEN SixLines(note)
             ELSE Field(part.VPARTNO) \o <<"\n">> \o SixLines(note)

PartCount(pcoll, item_no) == Cardinality({i \in 1..Len(pcoll) : pcoll[i].item_number = item_no})

\* the parts file defines a part number
Defined(item_no) == \E i \in 1..Len(parts_file) : Field(parts_file[i].ITEM) = item_no

\* C26: the missing-parts importer inserts only parts the collection lacks: for a
\* part number the run has passed, the collection holds what it held at the start
\* when it held the number already, exactly one document when it did not and the
\* parts file defines the number (a real run), and none otherwise; a dry run inserts
\* nothing; a real run that follows a completed real run with the same files inserts
\* zero parts.
C26_InsertsOnlyMissing ==
    \A p \in Procs : (prog = "import" /\ imp[p].pc \in {"loop", "done"}) =>
        /\ \A item_no \in imp[p].missing_parts \ imp[p].todo :
              PartCount(parts, item_no) =
                 IF PartCount(imp[p].parts0, item_no) > 0 THEN PartCount(imp[p].parts0, item_no)
                 ELSE IF Defined(item_no) /\ ~imp[p].dry_run THEN 1 ELSE 0
        /\ imp[p].dry_run => parts = imp[p].parts0
        /\ (/\ imp[p].pc = "done" /\ ~imp[p].dry_run
            /\ prev[p].pc = "done" /\ ~prev[p].dry_run /\ prev[p].parts1 = imp[p].parts0) =>
              /\ imp[p].inserted = 0
              /\ parts = imp[p].parts0

\* a real run is over that followed a real run which inserted a part: it skipped that
\* part and the part the store held from the start, and inserted none
C26_Witness ==
    /\ prog = "import"
    /\ prev[1].pc = "done" /\ ~prev[1].dry_run /\ prev[1].inserted = 1 /\ prev[1].skipped = 1
    /\ imp[1].pc = "done" /\ ~imp[1].dry_run
    /\ imp[1].inserted = 0 /\ imp[1].skipped = 2
    /\ PartCount(parts, <<"9">>) = 1 /\ PartCount(parts, <<"7">>) = 1

\* the renames a run of the fixer has staged, as operations
StagedRenames(r) == [i \in 1..Len(r.applied) |-> [old |-> r.applied[i][1], new_item |-> r.applied[i][2]]]

\* the order numbers a run of the migrator has staged, in the order of the aggregates
StagedInOrder(r) ==
    LET keys == [i \in 1..Len(r.orders_map) |-> r.orders_map[i].sono]
    IN  SelectSeq(SubSeq(keys, 1, r.idx - 1), LAMBDA k : k \in StagedKeys(r))

\* C27: in the migrator, the item-number fixer and the parts updater, for every batch
\* size the pending batch holds fewer operations than the batch size after each pass
\* of the loop, and once a real run is complete the operations handed to bulk_write,
\* in their order, are the operations the run staged, each once.
C27_BatchDiscipline ==
    /\ \A p \in Procs : prog = "migrate" =>
          /\ mig[p].pc = "loop" => Len(mig[p].bulk_ops) < mig[p].batch_size
          /\ (mig[p].pc = "done" /\ ~mig[p].dry_run) =>
                /\ mig[p].written = StagedInOrder(mig[p])
                /\ Len(mig[p].written) = mig[p].processed
    /\ prog = "fix" =>
          /\ fix.pc = "loop" => Len(fix.bulk_ops) < fix.batch_size
          /\ (fix.pc = "done" /\ ~fix.dry_run) =>
                fix.written = StagedRenames(fix)
    /\ prog = "update" =>
          /\ upd.pc = "loop" => Len(upd.bulk_operations) < upd.batch_size
          /\ (upd.pc = "done" /\ ~upd.dry_run) =>
                /\ Len(upd.written) = Len(parts_file)
                /\ \A i \in 1..Len(parts_file) :
                      upd.written[i].item_no = Field(parts_file[i].ITEM)

\* a real run of the fixer with batch size 2 is over: it staged three renames and
\* handed them over in a full batch and a final one
C27_Witness ==
    /\ prog = "fix" /\ fix.pc = "done" /\ ~fix.dry_run
    /\ fix.batch_size = 2
    /\ Len(fix.applied) = 3
    /\ Len(fix.written) = 3

\* the scanned record indexes at which a progress line is due: the multiples of the
\* twentieth of the total (of 1 when that is less)
DueIndexes(scanned, total) ==
    {i \in 1..scanned : i % (IF total \div 20 >= 1 THEN total \div 20 ELSE 1) = 0}

\* C28: the item-number fixer has emitted one progress line for every scanned record
\* index that is a multiple of the progress interval, whatever it decided for the
\* record (renamed, up to date, no match, not a ".0" item).
C28_ProgressCadence ==
    (prog = "fix" /\ fix.pc \in {"loop", "done"}) =>
        fix.progress = Cardinality(DueIndexes(fix.idx - 1, Len(old_file)))
====
